---- MODULE Spec2Model ----
(***************************************************************************)
(* Model of the matching core of lead_exchange_bk:                         *)
(*   - the indexing pipeline of the lead and property services             *)
(*     (create / update spawn a background embedding task, ReindexLead /   *)
(*     ReindexProperty run the same steps in the foreground);              *)
(*   - the advanced match (hard filters, retrieval, reranker, weighted     *)
(*     ranking, truncation).                                               *)
(*   - single calls of the functions the two parts are built from;         *)
(*   - the metrics registry of the AI calls and its concurrent users.      *)
(* The parts are checked under their own specifications, SpecIndex,        *)
(* SpecMatch, SpecCalls and SpecMetrics; each leaves the variables of the  *)
(* others unchanged.                                                       *)
(***************************************************************************)
EXTENDS Integers, Sequences, FiniteSets, TLC

None == "none"

(***************************************************************************)
(* Bounds of the model.                                                    *)
(***************************************************************************)
\* highest content version an entity's embedding-relevant fields may reach
MaxVer == 3
\* number of background task slots (a finished slot is reused)
MaxTasks == 2
\* largest result limit a match request asks for
MaxLimit == 2

(***************************************************************************)
(* Program constants.                                                      *)
(***************************************************************************)
\* dimension of the embedding columns after the last migration
EmbeddingDim == 1024
\* dimension of the vector the disabled ML client returns
NoopDim == 384

VARIABLES
    \* ---- indexing pipeline ----
    mlMode,     \* "real": HTTP-backed ml.Client, "noop": ml.noopClient
    rows,       \* the table of the service (leads or properties): id -> row
    tasks,      \* background goroutines spawned by create / update
    rx,         \* the foreground ReindexLead / ReindexProperty call
    shutdown,   \* the top-level cancellation signal of the process
    \* ---- matching ----
    cfg,        \* the search configuration and the wiring of the clients
    m,          \* the match call in progress: its inputs and what it produced
    \* ---- single function calls ----
    call,       \* the last call of a function: its name, arguments and result
    \* ---- metrics registry ----
    met         \* the counters of AIMetrics and the goroutines that use them

idxVars == <<mlMode, rows, tasks, rx, shutdown>>

matchVars == <<cfg, m>>

callVars == <<call>>

metricsVars == <<met>>

vars == <<idxVars, matchVars, callVars, metricsVars>>

\* no function has been called yet
IdleCall == [fn |-> "idle"]

(***************************************************************************)
(* Entities.  One lead and one property; "ghost-0" is an id no row has.    *)
(* The lead service and the property service are separate objects, each   *)
(* with its own table; a behaviour follows one of them.                    *)
(***************************************************************************)
Ids == {"lead-1", "property-1"}
UnknownId == "ghost-0"

Kind(id) == IF id = "lead-1" THEN "lead" ELSE "property"

\* Fields an update request may carry (one non-nil pointer of the filter).
UpdateFields(kind) ==
    IF kind = "lead"
    THEN {"title", "description", "requirement", "city", "status"}
    ELSE {"title", "description", "address", "price", "rooms", "area",
          "city", "status"}

\* UpdateLead / UpdateProperty: the condition guarding the go statement.
TouchesEmbedding(kind, field) ==
    IF kind = "lead"
    THEN field \in {"title", "description", "requirement"}
    ELSE field \in {"title", "description", "address", "price", "rooms", "area"}

(***************************************************************************)
(* Contexts.                                                               *)
(***************************************************************************)
\* A variant that would hand the request's context to the goroutine.
TaskContextOfRequest(reqCtx) == reqCtx

\* The context handed to the goroutine: context.Background().
TaskContext(reqCtx) == "background"

\* ctx.Done() of a context, as seen by a running task: the background
\* context is never cancelled; the request's context is cancelled as soon as
\* the handler that spawned the task has returned (the handler returns right
\* after the go statement); a context derived from a process-wide root would
\* be cancelled by shutdown.
Canceled(ctx) ==
    CASE ctx = "background" -> FALSE
      [] ctx = "root"       -> shutdown
      [] ctx = "request"    -> TRUE

(***************************************************************************)
(* The embedder.  A vector is abstracted to its dimension, the content     *)
(* version it was computed from and whether it is all-zero.                *)
(***************************************************************************)
\* no vector: a NULL embedding column, or an embedder call that failed
NoVec == [dim |-> 0, of |-> None, src |-> 0, zero |-> FALSE]

\* the vector the embedder computes from the field values of content version ver
\* A variant computed from the row as stored at the time of the call.
RealVectorOfRow(id, ver) == [dim |-> EmbeddingDim, of |-> id, src |-> rows[id].ver, zero |-> FALSE]
RealVector(id, ver) == [dim |-> EmbeddingDim, of |-> id, src |-> ver, zero |-> FALSE]

\* noopClient.PrepareAndEmbed / noopClient.Reindex: make([]float64, 384)
NoopVector(id) == [dim |-> NoopDim, of |-> id, src |-> 0, zero |-> TRUE]

\* Possible outcomes of mlClient.Reindex / PrepareAndEmbed: a vector or NoVec
\* (an error).  The disabled client never fails.
EmbedOutcomes(id, ver) ==
    IF mlMode = "noop" THEN {NoopVector(id)}
    ELSE {RealVector(id, ver), NoVec}

(***************************************************************************)
(* Repository.                                                             *)
(***************************************************************************)
NoRow == [exists |-> FALSE, ver |-> 0, emb |-> NoVec]

\* UpdateEmbedding: UPDATE ... SET embedding = $1::vector WHERE id = $2.
\* Fails when the statement fails (dbOK = FALSE, or a vector whose
\* dimension is not the column's) or when no row is affected.
UpdateEmbeddingErr(id, vec, dbOK) ==
    IF ~dbOK \/ vec.dim # EmbeddingDim THEN "db"
    ELSE IF id \notin DOMAIN rows \/ ~rows[id].exists THEN "notfound"
    ELSE None

\* GetByID
GetByIDErr(id, dbOK) ==
    IF ~dbOK THEN "db"
    ELSE IF id \notin DOMAIN rows \/ ~rows[id].exists THEN "notfound"
    ELSE None

(***************************************************************************)
(* Background tasks.                                                       *)
(***************************************************************************)
Slots == 1..MaxTasks

IdleTask == [pc |-> "idle", id |-> None, snap |-> 0, ctx |-> None,
             vec |-> NoVec, err |-> None, reply |-> None]

InFlight(t) == tasks[t].pc \in {"embed", "write"}
FreeSlot(t) == tasks[t].pc \in {"idle", "done", "failed"}

\* the slot a new goroutine takes: the lowest free one
NextSlot == CHOOSE t \in Slots : FreeSlot(t) /\ \A u \in Slots : FreeSlot(u) => t <= u

\* go func() { ... }() of CreateLead / CreateProperty / UpdateLead /
\* UpdateProperty: the goroutine starts with the snapshot and the context
\* chosen by the handler; reply is what the handler returns to its caller
\* right after the go statement.
Spawn(t, id, snap, reply) ==
    [tasks EXCEPT ![t] = [pc |-> "embed", id |-> id, snap |-> snap,
                          ctx |-> TaskContext("request"),
                          vec |-> NoVec, err |-> None, reply |-> reply]]

\* The goroutine ends: its error, if any, is logged and dropped.
Finish(t, pc, err) ==
    [tasks EXCEPT ![t] = [IdleTask EXCEPT !.pc = pc, !.err = err,
                                          !.reply = tasks[t].reply]]

\* What the handler returns once the row write has been attempted.
HandlerReply(rowErr) == IF rowErr = None THEN "ok" ELSE rowErr

\* A later mutation or reindex of id has been requested: the last
\* successful reindex is no longer the latest request on that entity.
Supersede(id) == IF rx.id = id THEN [rx EXCEPT !.fresh = FALSE] ELSE rx

\* CreateLead / CreateProperty: repo.Create, then the go statement.
Create(id) ==
    /\ ~shutdown
    /\ ~rows[id].exists
    /\ \E dbOK \in BOOLEAN :
         IF ~dbOK
         THEN UNCHANGED <<rows, tasks, rx>>
         ELSE /\ \E t \in Slots : FreeSlot(t)
              /\ rows' = [rows EXCEPT ![id] = [exists |-> TRUE, ver |-> 1, emb |-> NoVec]]
              /\ tasks' = Spawn(NextSlot, id, 1, HandlerReply(None))
              /\ rx' = Supersede(id)
    /\ UNCHANGED <<mlMode, shutdown>>
    /\ UNCHANGED <<matchVars, callVars, metricsVars>>

\* UpdateLead / UpdateProperty: repo.Update, repo.GetByID, conditional spawn.
Update(id) ==
    /\ ~shutdown
    /\ \E touch \in {TouchesEmbedding(Kind(id), f) : f \in UpdateFields(Kind(id))},
          dbOK \in BOOLEAN :
         LET rowErr == GetByIDErr(id, dbOK)
             nver   == IF touch THEN rows[id].ver + 1 ELSE rows[id].ver
         IN  IF rowErr # None
             THEN UNCHANGED <<rows, tasks, rx>>
             ELSE /\ nver <= MaxVer
                  /\ rows' = [rows EXCEPT ![id].ver = nver]
                  /\ rx' = Supersede(id)
                  /\ IF touch
                     THEN /\ \E t \in Slots : FreeSlot(t)
                          /\ tasks' = Spawn(NextSlot, id, nver, HandlerReply(None))
                     ELSE tasks' = tasks
    /\ UNCHANGED <<mlMode, shutdown>>
    /\ UNCHANGED <<matchVars, callVars, metricsVars>>

\* generateAndUpdateEmbedding / reindexLead / reindexProperty, first half:
\* the call of the embedder.
TaskEmbed(t) ==
    /\ tasks[t].pc = "embed"
    /\ IF Canceled(tasks[t].ctx)
       THEN tasks' = Finish(t, "failed", "canceled")
       ELSE \E v \in EmbedOutcomes(tasks[t].id, tasks[t].snap) :
              IF v = NoVec
              THEN tasks' = Finish(t, "failed", "embedder")
              ELSE tasks' = [tasks EXCEPT ![t].pc = "write", ![t].vec = v]
    /\ UNCHANGED <<mlMode, rows, rx, shutdown>>
    /\ UNCHANGED <<matchVars, callVars, metricsVars>>

\* second half: repo.UpdateEmbedding; an error is only logged.
TaskWrite(t) ==
    /\ tasks[t].pc = "write"
    /\ IF Canceled(tasks[t].ctx)
       THEN /\ tasks' = Finish(t, "failed", "canceled")
            /\ rows' = rows
       ELSE \E dbOK \in BOOLEAN :
              LET e == UpdateEmbeddingErr(tasks[t].id, tasks[t].vec, dbOK)
              IN  IF e # None
                  THEN /\ tasks' = Finish(t, "failed", "write")
                       /\ rows' = rows
                  ELSE /\ tasks' = Finish(t, "done", None)
                       /\ rows' = [rows EXCEPT ![tasks[t].id].emb = tasks[t].vec]
    /\ UNCHANGED <<mlMode, rx, shutdown>>
    /\ UNCHANGED <<matchVars, callVars, metricsVars>>

\* The top-level cancellation signal is raised.
RaiseShutdown ==
    /\ ~shutdown
    /\ shutdown' = TRUE
    /\ UNCHANGED <<mlMode, rows, tasks, rx>>
    /\ UNCHANGED <<matchVars, callVars, metricsVars>>

(***************************************************************************)
(* ReindexLead / ReindexProperty: the same steps in the caller's context.  *)
(***************************************************************************)
NoWrite == [id |-> None, vec |-> NoVec]

IdleRx == [pc |-> "idle", id |-> None, snap |-> 0, vec |-> NoVec, ctx |-> None,
           result |-> None, fail |-> None, embedCalled |-> FALSE,
           wrote |-> NoWrite, fresh |-> FALSE]

\* A variant that would swallow the error of a step.
ReindexResultSwallow(err) == "ok"

\* The value ReindexLead / ReindexProperty returns for a step error.
ReindexResult(err) ==
    IF err = None THEN "ok"
    ELSE IF err = "notfound" THEN "notfound"
    ELSE "error"

\* repo.GetByID at the head of ReindexLead / ReindexProperty.
ReindexStart(id) ==
    /\ ~shutdown
    /\ rx.pc \in {"idle", "returned"}
    /\ \E dbOK \in BOOLEAN :
         LET e == GetByIDErr(id, dbOK)
         IN  IF e # None
             THEN rx' = [IdleRx EXCEPT !.pc = "returned", !.id = id,
                                       !.result = ReindexResult(e), !.fail = "load"]
             ELSE rx' = [IdleRx EXCEPT !.pc = "embed", !.id = id, !.ctx = "live",
                                       !.snap = rows[id].ver]
    /\ UNCHANGED <<mlMode, rows, tasks, shutdown>>
    /\ UNCHANGED <<matchVars, callVars, metricsVars>>

\* The caller's context is cancelled while the call is in progress.
CancelCaller ==
    /\ rx.pc \in {"embed", "write"}
    /\ rx.ctx = "live"
    /\ rx' = [rx EXCEPT !.ctx = "canceled"]
    /\ UNCHANGED <<mlMode, rows, tasks, shutdown>>
    /\ UNCHANGED <<matchVars, callVars, metricsVars>>

\* mlClient.Reindex(ctx, req) inside reindexLead / reindexProperty.
ReindexEmbed ==
    /\ rx.pc = "embed"
    /\ \E v \in (IF rx.ctx = "canceled" THEN {NoVec} ELSE EmbedOutcomes(rx.id, rx.snap)) :
         IF v = NoVec
         THEN rx' = [rx EXCEPT !.pc = "returned", !.embedCalled = TRUE, !.snap = 0,
                               !.result = ReindexResult("embedder"), !.fail = "embedder",
                               !.ctx = None]
         ELSE rx' = [rx EXCEPT !.pc = "write", !.embedCalled = TRUE, !.snap = 0, !.vec = v]
    /\ UNCHANGED <<mlMode, rows, tasks, shutdown>>
    /\ UNCHANGED <<matchVars, callVars, metricsVars>>

\* repo.UpdateEmbedding(ctx, id, embedding) and the return.
ReindexWrite ==
    /\ rx.pc = "write"
    /\ \E dbOK \in (IF rx.ctx = "canceled" THEN {FALSE} ELSE BOOLEAN) :
         LET e == UpdateEmbeddingErr(rx.id, rx.vec, dbOK)
         IN  IF e # None
             THEN /\ rx' = [rx EXCEPT !.pc = "returned", !.result = ReindexResult(e),
                                      !.fail = "write", !.vec = NoVec, !.ctx = None]
                  /\ rows' = rows
             ELSE /\ rx' = [rx EXCEPT !.pc = "returned", !.result = ReindexResult(None),
                                      !.wrote = [id |-> rx.id, vec |-> rx.vec],
                                      !.fresh = TRUE, !.vec = NoVec, !.ctx = None]
                  /\ rows' = [rows EXCEPT ![rx.id].emb = rx.vec]
    /\ UNCHANGED <<mlMode, tasks, shutdown>>
    /\ UNCHANGED <<matchVars, callVars, metricsVars>>

(***************************************************************************)
(* Text.  A string is the sequence of its Unicode code points; the ranges  *)
(* the program's texts use are Latin (65..90, 97..122), Cyrillic           *)
(* (1040..1103, 1025, 1105), space, comma, full stop and hyphen.           *)
(***************************************************************************)
EmptyStr == <<>>

\* Optional values (Go pointers): a present value, a nil string, a nil number.
Some(v) == [ok |-> TRUE, v |-> v]

NoStr == [ok |-> FALSE, v |-> <<>>]

NoInt == [ok |-> FALSE, v |-> 0]

\* F applied to the value of e; e is evaluated once, however often F uses it
With(e, F(_)) == CHOOSE r \in {F(v) : v \in {e}} : TRUE

\* unicode.ToLower / unicode.ToUpper on those ranges
ToLowerCp(c) ==
    IF (c >= 65 /\ c <= 90) \/ (c >= 1040 /\ c <= 1071) THEN c + 32
    ELSE IF c = 1025 THEN 1105
    ELSE c

ToUpperCp(c) ==
    IF (c >= 97 /\ c <= 122) \/ (c >= 1072 /\ c <= 1103) THEN c - 32
    ELSE IF c = 1105 THEN 1025
    ELSE c

\* strings.ToLower
ToLower(s) == With(s, LAMBDA t : [i \in 1..Len(t) |-> ToLowerCp(t[i])])

\* unicode.IsSpace
IsSpace(c) == c \in {9, 10, 11, 12, 13, 32, 133, 160}

\* len(s): the number of bytes of the UTF-8 encoding
RECURSIVE ByteLen(_)
ByteLen(s) ==
    With(s, LAMBDA t :
        IF t = <<>> THEN 0
        ELSE IF Len(t) = 1
        THEN (IF Head(t) < 128 THEN 1 ELSE IF Head(t) < 2048 THEN 2 ELSE 3)
        ELSE With(Len(t) \div 2, LAMBDA h :
                 ByteLen(SubSeq(t, 1, h)) + ByteLen(SubSeq(t, h + 1, Len(t)))))

\* strings.TrimSpace
RECURSIVE TrimLeft(_)
TrimLeft(s) ==
    With(s, LAMBDA t : IF t # <<>> /\ IsSpace(Head(t)) THEN TrimLeft(Tail(t)) ELSE t)

RECURSIVE TrimRight(_)
TrimRight(s) ==
    With(s, LAMBDA t : IF t # <<>> /\ IsSpace(t[Len(t)])
                       THEN TrimRight(SubSeq(t, 1, Len(t) - 1)) ELSE t)

TrimSpace(s) == TrimRight(TrimLeft(s))

\* strings.EqualFold (simple case folding on the ranges above)
EqualFold(a, b) == ToLower(a) = ToLower(b)

\* strings.Contains
Contains(s, sub) ==
    With(<<s, sub>>, LAMBDA a :
        \E i \in 0..(Len(a[1]) - Len(a[2])) : SubSeq(a[1], i + 1, i + Len(a[2])) = a[2])

\* a + b on strings
Concat(a, b) == a \o b

(***************************************************************************)
(* City normalizer (package domain).                                       *)
(***************************************************************************)
\* KnownCities, in the order of the source (transliterated in the comments).
KnownCities == <<
    <<1052, 1086, 1089, 1082, 1074, 1072>>,  \* Moskva
    <<1057, 1072, 1085, 1082, 1090, 45, 1055, 1077, 1090, 1077, 1088, 1073, 1091, 1088, 1075>>,  \* Sankt-Peterburg
    <<1053, 1086, 1074, 1086, 1089, 1080, 1073, 1080, 1088, 1089, 1082>>,  \* Novosibirsk
    <<1045, 1082, 1072, 1090, 1077, 1088, 1080, 1085, 1073, 1091, 1088, 1075>>,  \* Ekaterinburg
    <<1050, 1072, 1079, 1072, 1085, 1100>>,  \* Kazan'
    <<1053, 1080, 1078, 1085, 1080, 1081, 32, 1053, 1086, 1074, 1075, 1086, 1088, 1086, 1076>>,  \* Nizhnij Novgorod
    <<1063, 1077, 1083, 1103, 1073, 1080, 1085, 1089, 1082>>,  \* Chelyabinsk
    <<1057, 1072, 1084, 1072, 1088, 1072>>,  \* Samara
    <<1054, 1084, 1089, 1082>>,  \* Omsk
    <<1056, 1086, 1089, 1090, 1086, 1074, 45, 1085, 1072, 45, 1044, 1086, 1085, 1091>>,  \* Rostov-na-Donu
    <<1059, 1092, 1072>>,  \* Ufa
    <<1050, 1088, 1072, 1089, 1085, 1086, 1103, 1088, 1089, 1082>>,  \* Krasnoyarsk
    <<1042, 1086, 1088, 1086, 1085, 1077, 1078>>,  \* Voronezh
    <<1055, 1077, 1088, 1084, 1100>>,  \* Perm'
    <<1042, 1086, 1083, 1075, 1086, 1075, 1088, 1072, 1076>>,  \* Volgograd
    <<1050, 1088, 1072, 1089, 1085, 1086, 1076, 1072, 1088>>,  \* Krasnodar
    <<1057, 1072, 1088, 1072, 1090, 1086, 1074>>,  \* Saratov
    <<1058, 1102, 1084, 1077, 1085, 1100>>,  \* Tyumen'
    <<1058, 1086, 1083, 1100, 1103, 1090, 1090, 1080>>,  \* Tol'yatti
    <<1048, 1078, 1077, 1074, 1089, 1082>>,  \* Izhevsk
    <<1041, 1072, 1088, 1085, 1072, 1091, 1083>>,  \* Barnaul
    <<1059, 1083, 1100, 1103, 1085, 1086, 1074, 1089, 1082>>,  \* Ul'yanovsk
    <<1048, 1088, 1082, 1091, 1090, 1089, 1082>>,  \* Irkutsk
    <<1061, 1072, 1073, 1072, 1088, 1086, 1074, 1089, 1082>>,  \* Habarovsk
    <<1071, 1088, 1086, 1089, 1083, 1072, 1074, 1083, 1100>>,  \* Yaroslavl'
    <<1042, 1083, 1072, 1076, 1080, 1074, 1086, 1089, 1090, 1086, 1082>>,  \* Vladivostok
    <<1052, 1072, 1093, 1072, 1095, 1082, 1072, 1083, 1072>>,  \* Mahachkala
    <<1058, 1086, 1084, 1089, 1082>>,  \* Tomsk
    <<1054, 1088, 1077, 1085, 1073, 1091, 1088, 1075>>,  \* Orenburg
    <<1050, 1077, 1084, 1077, 1088, 1086, 1074, 1086>>,  \* Kemerovo
    <<1053, 1086, 1074, 1086, 1082, 1091, 1079, 1085, 1077, 1094, 1082>>,  \* Novokuzneck
    <<1056, 1103, 1079, 1072, 1085, 1100>>,  \* Ryazan'
    <<1040, 1089, 1090, 1088, 1072, 1093, 1072, 1085, 1100>>,  \* Astrahan'
    <<1053, 1072, 1073, 1077, 1088, 1077, 1078, 1085, 1099, 1077, 32, 1063, 1077, 1083, 1085, 1099>>,  \* Naberezhnye Chelny
    <<1055, 1077, 1085, 1079, 1072>>,  \* Penza
    <<1051, 1080, 1087, 1077, 1094, 1082>>,  \* Lipeck
    <<1050, 1080, 1088, 1086, 1074>>,  \* Kirov
    <<1063, 1077, 1073, 1086, 1082, 1089, 1072, 1088, 1099>>,  \* Cheboksary
    <<1058, 1091, 1083, 1072>>,  \* Tula
    <<1050, 1072, 1083, 1080, 1085, 1080, 1085, 1075, 1088, 1072, 1076>>,  \* Kaliningrad
    <<1057, 1086, 1095, 1080>>,  \* Sochi
    <<1057, 1077, 1074, 1072, 1089, 1090, 1086, 1087, 1086, 1083, 1100>>,  \* Sevastopol'
    <<1057, 1080, 1084, 1092, 1077, 1088, 1086, 1087, 1086, 1083, 1100>>,  \* Simferopol'
    <<77, 111, 115, 99, 111, 119>>,  \* Moscow
    <<83, 97, 105, 110, 116, 32, 80, 101, 116, 101, 114, 115, 98, 117, 114, 103>>,  \* Saint Petersburg
    <<83, 116, 46, 32, 80, 101, 116, 101, 114, 115, 98, 117, 114, 103>>  \* St. Petersburg
  >>

\* the normalizations map of NormalizeCity: <<key, canonical name>>
CityNormalizations == {
    <<<<1089, 1087, 1073>>,
      <<1057, 1072, 1085, 1082, 1090, 45, 1055, 1077, 1090, 1077, 1088, 1073, 1091, 1088, 1075>>>>,  \* spb -> Sankt-Peterburg
    <<<<1087, 1080, 1090, 1077, 1088>>,
      <<1057, 1072, 1085, 1082, 1090, 45, 1055, 1077, 1090, 1077, 1088, 1073, 1091, 1088, 1075>>>>,  \* piter -> Sankt-Peterburg
    <<<<1089, 1072, 1085, 1082, 1090, 32, 1087, 1077, 1090, 1077, 1088, 1073, 1091, 1088, 1075>>,
      <<1057, 1072, 1085, 1082, 1090, 45, 1055, 1077, 1090, 1077, 1088, 1073, 1091, 1088, 1075>>>>,  \* sankt peterburg -> Sankt-Peterburg
    <<<<115, 97, 105, 110, 116, 32, 112, 101, 116, 101, 114, 115, 98, 117, 114, 103>>,
      <<1057, 1072, 1085, 1082, 1090, 45, 1055, 1077, 1090, 1077, 1088, 1073, 1091, 1088, 1075>>>>,  \* saint petersburg -> Sankt-Peterburg
    <<<<115, 116, 46, 32, 112, 101, 116, 101, 114, 115, 98, 117, 114, 103>>,
      <<1057, 1072, 1085, 1082, 1090, 45, 1055, 1077, 1090, 1077, 1088, 1073, 1091, 1088, 1075>>>>,  \* st. petersburg -> Sankt-Peterburg
    <<<<1084, 1089, 1082>>,
      <<1052, 1086, 1089, 1082, 1074, 1072>>>>,  \* msk -> Moskva
    <<<<109, 111, 115, 99, 111, 119>>,
      <<1052, 1086, 1089, 1082, 1074, 1072>>>>,  \* moscow -> Moskva
    <<<<1085, 1089, 1082>>,
      <<1053, 1086, 1074, 1086, 1089, 1080, 1073, 1080, 1088, 1089, 1082>>>>,  \* nsk -> Novosibirsk
    <<<<1077, 1082, 1073>>,
      <<1045, 1082, 1072, 1090, 1077, 1088, 1080, 1085, 1073, 1091, 1088, 1075>>>>,  \* ekb -> Ekaterinburg
    <<<<1088, 1086, 1089, 1090, 1086, 1074>>,
      <<1056, 1086, 1089, 1090, 1086, 1074, 45, 1085, 1072, 45, 1044, 1086, 1085, 1091>>>>,  \* rostov -> Rostov-na-Donu
    <<<<1085, 1080, 1078, 1085, 1080, 1081>>,
      <<1053, 1080, 1078, 1085, 1080, 1081, 32, 1053, 1086, 1074, 1075, 1086, 1088, 1086, 1076>>>>  \* nizhnij -> Nizhnij Novgorod
  }

\* the character class of the three patterns: Cyrillic A-Ya, a-ya, Yo, yo
\* and the hyphen (patterns are transliterated below)
IsCityRune(c) == (c >= 1040 /\ c <= 1103) \/ c = 1025 \/ c = 1105 \/ c = 45

\* \s of the patterns
IsReSpace(c) == c \in {9, 10, 12, 13, 32}

\* the longest run of class characters of s that starts at position i
RECURSIVE CityRun(_, _)
CityRun(s, i) ==
    IF i <= Len(s) /\ IsCityRune(s[i]) THEN <<s[i]>> \o CityRun(s, i + 1) ELSE <<>>

\* the first position >= i of s that is not white space
RECURSIVE SkipSpace(_, _)
SkipSpace(s, i) == IF i <= Len(s) /\ IsReSpace(s[i]) THEN SkipSpace(s, i + 1) ELSE i

\* (?i)g\.\s*([A-Ya a-ya Yo yo -]+): the capture of the leftmost match, or <<>>
MatchAtGDot(s, i) ==
    /\ i + 1 <= Len(s)
    /\ ToLowerCp(s[i]) = 1075
    /\ s[i + 1] = 46
    /\ CityRun(s, SkipSpace(s, i + 2)) # <<>>

PatternGDot(s) ==
    With({j \in 1..Len(s) : MatchAtGDot(s, j)}, LAMBDA at :
        IF at # {} THEN CityRun(s, SkipSpace(s, (CHOOSE j \in at : \A h \in at : j <= h) + 2))
        ELSE <<>>)

\* (?i)gorod\s+([A-Ya a-ya Yo yo -]+)
WordGorod == <<1075, 1086, 1088, 1086, 1076>>

MatchAtGorod(s, i) ==
    /\ i + 5 <= Len(s)
    /\ ToLower(SubSeq(s, i, i + 4)) = WordGorod
    /\ IsReSpace(s[i + 5])
    /\ CityRun(s, SkipSpace(s, i + 5)) # <<>>

PatternGorod(s) ==
    With({j \in 1..Len(s) : MatchAtGorod(s, j)}, LAMBDA at :
        IF at # {} THEN CityRun(s, SkipSpace(s, (CHOOSE j \in at : \A h \in at : j <= h) + 5))
        ELSE <<>>)

\* (?i)^([A-Ya a-ya Yo yo -]+),
PatternHead(s) ==
    With(CityRun(s, 1), LAMBDA run :
        IF run # <<>> /\ Len(run) < Len(s) /\ s[Len(run) + 1] = 44 THEN run ELSE <<>>)

\* the known cities in lower case, as the loop of ExtractCityFromAddress
\* compares them
KnownCitiesLower == [k \in 1..Len(KnownCities) |-> ToLower(KnownCities[k])]

\* ExtractCityFromAddress: NoStr (nil) when no city is found
ExtractCityFromAddress(address) ==
    With(<<address, ToLower(address)>>, LAMBDA a :
        With({k \in 1..Len(KnownCities) : Contains(a[2], KnownCitiesLower[k])}, LAMBDA hits :
            IF a[1] = <<>> THEN NoStr
            ELSE IF hits # {}
            THEN Some(KnownCities[CHOOSE k \in hits : \A h \in hits : k <= h])
            ELSE With(<<TrimSpace(PatternGDot(a[1])), TrimSpace(PatternGorod(a[1])),
                        TrimSpace(PatternHead(a[1]))>>, LAMBDA caps :
                     With({k \in 1..3 : caps[k] # <<>> /\ ByteLen(caps[k]) > 2}, LAMBDA good :
                         IF good # {}
                         THEN Some(caps[CHOOSE k \in good : \A h \in good : k <= h])
                         ELSE NoStr))))

\* NormalizeCity
NormalizeCity(city) ==
    With(TrimSpace(city), LAMBDA c :
        With(ToLower(c), LAMBDA lower :
            With({p \in CityNormalizations : p[1] = lower}, LAMBDA hit :
                IF hit # {} THEN (CHOOSE p \in hit : TRUE)[2]
                ELSE IF Len(c) > 0 THEN <<ToUpperCp(c[1])>> \o Tail(c)
                ELSE c)))

\* CitiesMatch
CitiesMatch(city1, city2) ==
    IF city1 = <<>> \/ city2 = <<>> THEN FALSE
    ELSE EqualFold(NormalizeCity(city1), NormalizeCity(city2))

(***************************************************************************)
(* Metrics registry of the AI calls (package metrics).  Every counter is   *)
(* read and written with one atomic operation at a time; RecordCall,       *)
(* getServiceStats and Reset are sequences of such operations and run in   *)
(* goroutines of their own.  The services share no counter: a behaviour    *)
(* follows the counters of one service, met.service, and the operations    *)
(* on them.  The services vision and embedding are handled like reranker   *)
(* and are left out.                                                       *)
(***************************************************************************)
\* number of RecordCall invocations of a behaviour, each in its goroutine
MaxRecords == 2

Services == <<"llm", "reranker">>

ServiceSet == {Services[i] : i \in 1..Len(Services)}

Recorders == 1..MaxRecords

\* the counters of one service
ZeroCounters == [calls |-> 0, errors |-> 0, latencyTotalMs |-> 0, lastLatencyMs |-> 0,
                 tokensUsedTotal |-> 0]

\* a float64 quotient, kept as numerator and denominator
Quotient(num, den) == [num |-> num, den |-> den]

ZeroFloat == Quotient(0, 1)

\* ServiceStats
ServiceStats(calls, errors, errorRate, avgLatency, lastLatency, tokens) ==
    [CallsTotal |-> calls, ErrorsTotal |-> errors, ErrorRate |-> errorRate,
     AvgLatencyMs |-> avgLatency, LastLatencyMs |-> lastLatency, TokensUsedTotal |-> tokens]

ZeroStats == ServiceStats(0, 0, ZeroFloat, ZeroFloat, 0, 0)

IdleRecorder == [pc |-> "idle", latencyMs |-> 0, err |-> FALSE, tokensUsed |-> 0]

\* the local variables of getServiceStats; quiet: no RecordCall and no Reset
\* has run since the call was made
IdleReader == [pc |-> "idle", calls |-> 0, errors |-> 0, latencyTotal |-> 0,
               lastLatency |-> 0, tokens |-> 0, quiet |-> FALSE]

\* the counters Reset stores 0 to, in the order of the source
ResetStores(service) ==
    <<"calls", "errors", "latencyTotalMs", "lastLatencyMs">>
    \o (IF service = "llm" THEN <<"tokensUsedTotal">> ELSE <<>>)

\* the registry after GetAIMetrics, with no goroutine at work; `returned`
\* counts the RecordCall invocations that have returned, those with an error
\* among them, and their latencies
NewMetrics(service) ==
    [service  |-> service,
     ctr      |-> ZeroCounters,
     rec      |-> [g \in Recorders |-> IdleRecorder],
     rd       |-> IdleReader,
     returned |-> [n |-> 0, errors |-> 0, latencyMs |-> 0],
     reset    |-> 0,
     resets   |-> 0]

\* time.Duration.Milliseconds of a duration in microseconds
Milliseconds(latency) == latency \div 1000

\* A variant of AddInt64 whose update is lost.
AddInt64Lost(old, delta) == old
\* atomic.AddInt64: the new value of the counter
AddInt64(old, delta) == old + delta

\* a RecordCall invocation is running
Recording == \E g \in Recorders : met.rec[g].pc \notin {"idle", "done"}

\* RecordCall: the call is made by the next goroutine; a snapshot being
\* taken is no longer one of a quiet registry
RecordCall(g, latency, err, tokensUsed) ==
    /\ met.rec[g].pc = "idle"
    /\ met.reset = 0
    /\ IF g = 1 THEN TRUE ELSE met.rec[g - 1].pc # "idle"
    /\ met' = [met EXCEPT !.rec[g] = [pc |-> "calls", latencyMs |-> Milliseconds(latency),
                                      err |-> err, tokensUsed |-> tokensUsed],
                          !.rd.quiet = FALSE]
    /\ UNCHANGED <<idxVars, matchVars, callVars>>

\* the operation after the store of the last latency
AfterLast(service, r) ==
    IF service = "llm" /\ r.tokensUsed > 0 THEN "tokens"
    ELSE IF r.err THEN "errors" ELSE "log"

\* RecordCall: atomic.AddInt64(&m.<service>CallsTotal, 1)
RecordAddCalls(g) ==
    /\ met.rec[g].pc = "calls"
    /\ met' = [met EXCEPT !.ctr.calls = AddInt64(@, 1), !.rec[g].pc = "latency"]
    /\ UNCHANGED <<idxVars, matchVars, callVars>>

\* RecordCall: atomic.AddInt64(&m.<service>LatencyTotalMs, latencyMs)
RecordAddLatency(g) ==
    /\ met.rec[g].pc = "latency"
    /\ met' = [met EXCEPT !.ctr.latencyTotalMs = AddInt64(@, met.rec[g].latencyMs),
                          !.rec[g].pc = "last"]
    /\ UNCHANGED <<idxVars, matchVars, callVars>>

\* RecordCall: atomic.StoreInt64(&m.<service>LastLatencyMs, latencyMs)
RecordStoreLast(g) ==
    /\ met.rec[g].pc = "last"
    /\ met' = [met EXCEPT !.ctr.lastLatencyMs = met.rec[g].latencyMs,
                          !.rec[g].pc = AfterLast(met.service, met.rec[g])]
    /\ UNCHANGED <<idxVars, matchVars, callVars>>

\* RecordCall: atomic.AddInt64(&m.llmTokensUsedTotal, int64(tokensUsed))
RecordAddTokens(g) ==
    /\ met.rec[g].pc = "tokens"
    /\ met' = [met EXCEPT !.ctr.tokensUsedTotal = AddInt64(@, met.rec[g].tokensUsed),
                          !.rec[g].pc = IF met.rec[g].err THEN "errors" ELSE "log"]
    /\ UNCHANGED <<idxVars, matchVars, callVars>>

\* RecordCall: atomic.AddInt64(&m.<service>ErrorsTotal, 1)
RecordAddErrors(g) ==
    /\ met.rec[g].pc = "errors"
    /\ met' = [met EXCEPT !.ctr.errors = AddInt64(@, 1), !.rec[g].pc = "log"]
    /\ UNCHANGED <<idxVars, matchVars, callVars>>

\* RecordCall: the call is logged and returns
RecordReturn(g) ==
    /\ met.rec[g].pc = "log"
    /\ met' = [met EXCEPT !.rec[g] = [IdleRecorder EXCEPT !.pc = "done"],
                          !.returned =
                              [n |-> @.n + 1,
                               errors |-> @.errors + (IF met.rec[g].err THEN 1 ELSE 0),
                               latencyMs |-> @.latencyMs + met.rec[g].latencyMs]]
    /\ UNCHANGED <<idxVars, matchVars, callVars>>

\* GetStats: getServiceStats(service) is called
GetStats ==
    /\ met.rd.pc = "idle"
    /\ met.reset = 0
    /\ met' = [met EXCEPT !.rd = [IdleReader EXCEPT !.pc = "calls", !.quiet = ~Recording]]
    /\ UNCHANGED <<idxVars, matchVars, callVars>>

\* getServiceStats: calls = atomic.LoadInt64(&m.<service>CallsTotal)
StatsLoadCalls ==
    /\ met.rd.pc = "calls"
    /\ met' = [met EXCEPT !.rd.calls = met.ctr.calls, !.rd.pc = "errors"]
    /\ UNCHANGED <<idxVars, matchVars, callVars>>

\* getServiceStats: errors = atomic.LoadInt64(&m.<service>ErrorsTotal)
StatsLoadErrors ==
    /\ met.rd.pc = "errors"
    /\ met' = [met EXCEPT !.rd.errors = met.ctr.errors, !.rd.pc = "latency"]
    /\ UNCHANGED <<idxVars, matchVars, callVars>>

\* getServiceStats: latencyTotal = atomic.LoadInt64(&m.<service>LatencyTotalMs)
StatsLoadLatency ==
    /\ met.rd.pc = "latency"
    /\ met' = [met EXCEPT !.rd.latencyTotal = met.ctr.latencyTotalMs, !.rd.pc = "last"]
    /\ UNCHANGED <<idxVars, matchVars, callVars>>

\* getServiceStats: lastLatency = atomic.LoadInt64(&m.<service>LastLatencyMs)
StatsLoadLast ==
    /\ met.rd.pc = "last"
    /\ met' = [met EXCEPT !.rd.lastLatency = met.ctr.lastLatencyMs,
                          !.rd.pc = IF met.service = "llm" THEN "tokens" ELSE "return"]
    /\ UNCHANGED <<idxVars, matchVars, callVars>>

\* getServiceStats: tokens = atomic.LoadInt64(&m.llmTokensUsedTotal)
StatsLoadTokens ==
    /\ met.rd.pc = "tokens"
    /\ met' = [met EXCEPT !.rd.tokens = met.ctr.tokensUsedTotal, !.rd.pc = "return"]
    /\ UNCHANGED <<idxVars, matchVars, callVars>>

\* the ServiceStats getServiceStats returns for its local variables
getServiceStats(rd) ==
    ServiceStats(rd.calls, rd.errors,
                 IF rd.calls > 0 THEN Quotient(rd.errors, rd.calls) ELSE ZeroFloat,
                 IF rd.calls > 0 THEN Quotient(rd.latencyTotal, rd.calls) ELSE ZeroFloat,
                 rd.lastLatency, rd.tokens)

\* the statistics a getServiceStats call is about to return
Snapshot == getServiceStats(met.rd)

\* getServiceStats returns and GetStats has the statistics of the service
StatsReturn ==
    /\ met.rd.pc = "return"
    /\ met' = [met EXCEPT !.rd = IdleReader]
    /\ UNCHANGED <<idxVars, matchVars, callVars>>

\* number of Reset calls of a behaviour
MaxResets == 1

\* Reset: the call is made.  Only the tests of the package call Reset, and
\* they call it with no other call of the registry under way and make no
\* other call before it has returned.
Reset ==
    /\ met.reset = 0
    /\ met.resets < MaxResets
    /\ ~Recording
    /\ met.rd.pc = "idle"
    /\ met' = [met EXCEPT !.reset = 1, !.resets = @ + 1]
    /\ UNCHANGED <<idxVars, matchVars, callVars>>

\* Reset: the next atomic.StoreInt64(&m.<service><counter>, 0); it returns
\* after the last one
ResetStore ==
    /\ met.reset > 0
    /\ met' = [met EXCEPT !.ctr[ResetStores(met.service)[met.reset]] = 0,
                          !.reset = IF met.reset = Len(ResetStores(met.service))
                                    THEN 0 ELSE @ + 1]
    /\ UNCHANGED <<idxVars, matchVars, callVars>>

(***************************************************************************)
(* Domain types of the matcher (package domain).  A weight is the rational *)
(* number numerator / den; the five weights of one vector share den.       *)
(* Scores are in thousandths.                                              *)
(***************************************************************************)
Weights(p, d, r, a, s) ==
    [price |-> p, district |-> d, rooms |-> r, area |-> a, semantic |-> s, den |-> 100]

\* DefaultWeights
DefaultWeights == Weights(30, 25, 20, 10, 15)

WeightTotal(w) == w.price + w.district + w.rooms + w.area + w.semantic

\* A variant of Normalize that divides by the total whatever its sign.
NormalizeAnyTotal(w) == [w EXCEPT !.den = WeightTotal(w)]

\* MatchWeights.Normalize: every weight divided by the total
Normalize(w) ==
    IF WeightTotal(w) <= 0 THEN DefaultWeights ELSE [w EXCEPT !.den = WeightTotal(w)]

\* w.<field> *= num / 10, keeping the common denominator
ScaleWeight(w, field, num) ==
    [price    |-> w.price    * (IF field = "price" THEN num ELSE 10),
     district |-> w.district * (IF field = "district" THEN num ELSE 10),
     rooms    |-> w.rooms * 10,
     area     |-> w.area * 10,
     semantic |-> w.semantic * (IF field = "semantic" THEN num ELSE 10),
     den      |-> w.den * 10]

\* GetWeightPresets / GetWeightPresetByID; an unknown id gives no preset
WeightPresetIds == {"balanced", "budget_first", "location_first", "family", "semantic"}

GetWeightPresetByID(id) ==
    CASE id = "balanced"       -> Weights(25, 25, 20, 15, 15)
      [] id = "budget_first"   -> Weights(45, 20, 15, 10, 10)
      [] id = "location_first" -> Weights(20, 40, 15, 10, 15)
      [] id = "family"         -> Weights(20, 20, 30, 20, 10)
      [] id = "semantic"       -> Weights(15, 15, 15, 10, 45)

\* a nil enum-valued string (status, property type)
NoName == [ok |-> FALSE, v |-> ""]

\* SoftCriteria; NoCriteria is the nil pointer
EmptyCriteria ==
    [TargetPrice |-> NoInt, TargetDistrict |-> NoStr, TargetRooms |-> NoInt,
     TargetArea |-> NoInt, PreferredDistricts |-> <<>>]

NoCriteria == [ok |-> FALSE, v |-> EmptyCriteria]

\* HardFilters{}: every field nil
EmptyHardFilters ==
    [City |-> NoStr, PropertyType |-> NoName, MinRooms |-> NoInt, MaxRooms |-> NoInt,
     MinPrice |-> NoInt, MaxPrice |-> NoInt]

\* PropertyFilter{}: the fields the match handlers can set
EmptyFilter ==
    [Status |-> NoName, City |-> NoStr, PropertyType |-> NoName, MinRooms |-> NoInt,
     MaxRooms |-> NoInt, MinPrice |-> NoInt, MaxPrice |-> NoInt]

(***************************************************************************)
(* The tables the matcher reads.  Texts are transliterated in the comments.*)
(***************************************************************************)
\* the parsed requirement JSON of a lead: the four keys the analyzer reads
Requirement(price, district, roomNumber, area) ==
    [price |-> price, district |-> district, roomNumber |-> roomNumber, area |-> area]

NoRequirement == Requirement(NoInt, NoStr, NoInt, NoInt)

\* the leads table; the last lead has not been indexed yet
Leads == <<
    [Title       |-> <<1050, 1074, 1072, 1088, 1090, 1080, 1088, 1072, 32, 1085, 1077, 1076, 1086, 1088, 1086, 1075, 1086>>,  \* Kvartira nedorogo
     Description |-> <<1088, 1103, 1076, 1086, 1084, 32, 1089, 32, 1084, 1077, 1090, 1088, 1086>>,  \* ryadom s metro
     City        |-> Some(<<1052, 1086, 1089, 1082, 1074, 1072>>),  \* Moskva
     Requirement |-> Requirement(Some(100), Some(<<1072, 1088, 1073, 1072, 1090>>), Some(3), Some(50)),  \* district arbat
     Embedding   |-> RealVector("lead-1", 1)],
    [Title       |-> <<1050, 1074, 1072, 1088, 1090, 1080, 1088, 1072>>,  \* Kvartira
     Description |-> <<1052, 1086, 1089, 1082, 1074, 1072, 44, 32, 1094, 1077, 1085, 1090, 1088>>,  \* Moskva, centr
     City        |-> NoStr,
     Requirement |-> NoRequirement,
     Embedding   |-> RealVector("lead-1", 1)],
    [Title       |-> <<1057, 1090, 1091, 1076, 1080, 1103>>,  \* Studiya
     Description |-> <<1074, 1080, 1076, 32, 1085, 1072, 32, 1088, 1077, 1082, 1091>>,  \* vid na reku
     City        |-> Some(<<1089, 1087, 1073>>),  \* spb
     Requirement |-> Requirement(NoInt, NoStr, Some(1), NoInt),
     Embedding   |-> RealVector("lead-1", 1)],
    [Title       |-> <<1044, 1086, 1084>>,  \* Dom
     Description |-> <<1089, 1077, 1084, 1100, 1103, 32, 1080, 32, 1076, 1077, 1090, 1080>>,  \* sem'ya i deti
     City        |-> NoStr,
     Requirement |-> NoRequirement,
     Embedding   |-> RealVector("lead-1", 1)],
    [Title       |-> <<1054, 1092, 1080, 1089>>,  \* Ofis
     Description |-> <<1074, 32, 1094, 1077, 1085, 1090, 1088, 1077>>,  \* v centre
     City        |-> Some(<<1052, 1086, 1089, 1082, 1074, 1072>>),  \* Moskva
     Requirement |-> Requirement(NoInt, NoStr, Some(2), NoInt),
     Embedding   |-> NoVec]
  >>

\* the properties table; the last property has no embedding
Properties == <<
    [City    |-> Some(<<1052, 1086, 1089, 1082, 1074, 1072>>),  \* Moskva
     Address |-> <<1052, 1086, 1089, 1082, 1074, 1072, 44, 32, 1040, 1088, 1073, 1072, 1090, 32, 49>>,  \* Moskva, Arbat 1
     Price |-> Some(100), Rooms |-> Some(3), Area |-> Some(50),
     PropertyType |-> "APARTMENT", Status |-> "PUBLISHED", HasEmbedding |-> TRUE],
    [City    |-> Some(<<1052, 1054, 1057, 1050, 1042, 1040>>),  \* MOSKVA
     Address |-> <<1058, 1074, 1077, 1088, 1089, 1082, 1072, 1103, 32, 50>>,  \* Tverskaya 2
     Price |-> Some(110), Rooms |-> Some(4), Area |-> Some(60),
     PropertyType |-> "APARTMENT", Status |-> "PUBLISHED", HasEmbedding |-> TRUE],
    [City    |-> Some(<<1052, 1086, 1089, 1082, 1074, 1072>>),  \* Moskva
     Address |-> <<>>,
     Price |-> Some(100), Rooms |-> Some(5), Area |-> Some(50),
     PropertyType |-> "APARTMENT", Status |-> "NEW", HasEmbedding |-> TRUE],
    [City    |-> Some(<<1057, 1072, 1085, 1082, 1090, 45, 1055, 1077, 1090, 1077, 1088, 1073, 1091, 1088, 1075>>),  \* Sankt-Peterburg
     Address |-> <<1053, 1077, 1074, 1089, 1082, 1080, 1081, 32, 51>>,  \* Nevskij 3
     Price |-> Some(90), Rooms |-> Some(2), Area |-> Some(40),
     PropertyType |-> "APARTMENT", Status |-> "PUBLISHED", HasEmbedding |-> TRUE],
    [City    |-> NoStr,
     Address |-> <<>>,
     Price |-> NoInt, Rooms |-> NoInt, Area |-> NoInt,
     PropertyType |-> "APARTMENT", Status |-> "PUBLISHED", HasEmbedding |-> TRUE],
    [City    |-> Some(<<1052, 1086, 1089, 1082, 1074, 1072>>),  \* Moskva
     Address |-> <<1040, 1088, 1073, 1072, 1090, 32, 55>>,  \* Arbat 7
     Price |-> Some(100), Rooms |-> Some(3), Area |-> Some(50),
     PropertyType |-> "APARTMENT", Status |-> "PUBLISHED", HasEmbedding |-> FALSE]
  >>

LeadIds == 1..Len(Leads)

PropertyIds == 1..Len(Properties)

\* 1 - (embedding <=> query): cosine similarity of lead l and property p, in
\* thousandths; the property of another city is the most similar one
SimilarityTable ==
    << <<900, 800, 950, 990, 700, 0>>,
       <<600, 910, 850, 940, 720, 0>>,
       <<500, 400, 300, 880, 860, 0>>,
       <<820, 640, 760, 580, 700, 0>>,
       <<100, 200, 300, 400, 500, 0>> >>

Similarity(l, p) == SimilarityTable[l][p]

\* ts_rank(search_vector, plainto_tsquery(title + " " + description)) in
\* thousandths; 0 when the row does not match the query
FtsRankTable ==
    << <<300, 0, 0, 0, 0, 200>>,
       <<400, 300, 200, 0, 0, 100>>,
       <<0, 0, 0, 250, 0, 0>>,
       <<0, 300, 0, 100, 0, 500>>,
       <<0, 0, 0, 0, 0, 0>> >>

FtsRank(l, p) == FtsRankTable[l][p]

\* lists of the city names the soft filter of a request may carry
FilterCity == <<1052, 1086, 1089, 1082, 1074, 1072>>  \* Moskva

(***************************************************************************)
(* Keyword lists of detectLeadType.                                        *)
(***************************************************************************)
budgetKeywords == <<
    <<1073, 1102, 1076, 1078, 1077, 1090>>,  \* byudzhet
    <<1085, 1077, 1076, 1086, 1088, 1086, 1075, 1086>>,  \* nedorogo
    <<1076, 1077, 1096, 1077, 1074, 1086>>,  \* deshevo
    <<1101, 1082, 1086, 1085, 1086, 1084>>,  \* ekonom
    <<1076, 1086, 32>>,  \* do 
    <<1085, 1077, 32, 1073, 1086, 1083, 1077, 1077>>,  \* ne bolee
    <<1084, 1072, 1082, 1089, 1080, 1084, 1091, 1084>>  \* maksimum
  >>

locationKeywords == <<
    <<1088, 1072, 1081, 1086, 1085>>,  \* rajon
    <<1088, 1103, 1076, 1086, 1084, 32, 1089>>,  \* ryadom s
    <<1086, 1082, 1086, 1083, 1086>>,  \* okolo
    <<1094, 1077, 1085, 1090, 1088>>,  \* centr
    <<1084, 1077, 1090, 1088, 1086>>,  \* metro
    <<1091, 1083, 1080, 1094, 1072>>,  \* ulica
    <<1046, 1050>>,  \* ZhK
    <<1078, 1080, 1083, 1086, 1081, 32, 1082, 1086, 1084, 1087, 1083, 1077, 1082, 1089>>  \* zhiloj kompleks
  >>

familyKeywords == <<
    <<1089, 1077, 1084, 1100, 1103>>,  \* sem'ya
    <<1076, 1077, 1090, 1080>>,  \* deti
    <<1096, 1082, 1086, 1083>>,  \* shkol
    <<1076, 1077, 1090, 1089, 1082, 1080, 1081, 32, 1089, 1072, 1076>>,  \* detskij sad
    <<1087, 1083, 1086, 1097, 1072, 1076, 1082, 1072>>,  \* ploschadka
    <<1073, 1086, 1083, 1100, 1096, 1072, 1103>>,  \* bol'shaya
    <<1087, 1088, 1086, 1089, 1090, 1086, 1088, 1085>>  \* prostorn
  >>

investorKeywords == <<
    <<1080, 1085, 1074, 1077, 1089, 1090>>,  \* invest
    <<1072, 1088, 1077, 1085, 1076>>,  \* arend
    <<1076, 1086, 1093, 1086, 1076>>,  \* dohod
    <<1086, 1082, 1091, 1087, 1072, 1077, 1084>>,  \* okupaem
    <<1089, 1076, 1072, 1074, 1072, 1090, 1100>>,  \* sdavat'
    <<1073, 1080, 1079, 1085, 1077, 1089>>  \* biznes
  >>

luxuryKeywords == <<
    <<1101, 1083, 1080, 1090>>,  \* elit
    <<1087, 1088, 1077, 1084, 1080, 1091, 1084>>,  \* premium
    <<1083, 1102, 1082, 1089>>,  \* lyuks
    <<1087, 1077, 1085, 1090, 1093, 1072, 1091, 1089>>,  \* penthaus
    <<1074, 1080, 1076>>,  \* vid
    <<1087, 1072, 1085, 1086, 1088, 1072, 1084>>,  \* panoram
    <<1090, 1077, 1088, 1088, 1072, 1089>>  \* terras
  >>

(***************************************************************************)
(* Weights analyzer (package weights).                                     *)
(***************************************************************************)
\* Analyzer.countKeywords
countKeywords(text, keywords) ==
    Cardinality({k \in 1..Len(keywords) : Contains(text, keywords[k])})

\* the weights detectLeadType assigns with each lead type
LeadTypeWeights(leadType) ==
    CASE leadType = "budget_oriented"   -> Weights(45, 20, 15, 10, 10)
      [] leadType = "location_oriented" -> Weights(20, 40, 15, 10, 15)
      [] leadType = "family_oriented"   -> Weights(20, 20, 30, 20, 10)
      [] leadType = "investor"          -> Weights(35, 30, 10, 10, 15)
      [] leadType = "luxury"            -> Weights(10, 25, 15, 20, 30)
      [] leadType = "balanced"          -> DefaultWeights

\* Analyzer.detectLeadType: the chain of strict comparisons; the luxury
\* branch does not raise maxScore
detectLeadType(text) ==
    With(<<countKeywords(text, budgetKeywords), countKeywords(text, locationKeywords),
           countKeywords(text, familyKeywords), countKeywords(text, investorKeywords),
           countKeywords(text, luxuryKeywords)>>, LAMBDA score :
        LET budgetScore   == score[1]
            locationScore == score[2]
            familyScore   == score[3]
            investorScore == score[4]
            luxuryScore   == score[5]
            max2  == IF locationScore > budgetScore THEN locationScore ELSE budgetScore
            type2 == IF locationScore > budgetScore
                     THEN "location_oriented" ELSE "budget_oriented"
            max3  == IF familyScore > max2 THEN familyScore ELSE max2
            type3 == IF familyScore > max2 THEN "family_oriented" ELSE type2
            max4  == IF investorScore > max3 THEN investorScore ELSE max3
            type4 == IF investorScore > max3 THEN "investor" ELSE type3
            type5 == IF luxuryScore > max4 THEN "luxury" ELSE type4
            final == IF max4 = 0 THEN "balanced" ELSE type5
        IN  [LeadType |-> final, Weights |-> LeadTypeWeights(final)])

\* Analyzer.extractCriteriaFromRequirement
extractCriteriaFromRequirement(lead) ==
    LET r == lead.Requirement
        hasData == r.price.ok \/ r.district.ok \/ r.roomNumber.ok \/ r.area.ok
    IN  IF r = NoRequirement \/ ~hasData THEN NoCriteria
        ELSE Some([TargetPrice |-> r.price, TargetDistrict |-> r.district,
                   TargetRooms |-> r.roomNumber, TargetArea |-> r.area,
                   PreferredDistricts |-> <<>>])

\* Analyzer.adjustWeightsBasedOnData
adjustWeightsBasedOnData(weights, lead, criteria) ==
    With(IF lead.City.ok /\ lead.City.v # <<>>
         THEN ScaleWeight(weights, "district", 12) ELSE weights, LAMBDA w1 :
    With(IF criteria.ok /\ criteria.v.TargetPrice.ok
         THEN ScaleWeight(w1, "price", 12) ELSE w1, LAMBDA w2 :
    With(IF criteria.ok /\ criteria.v.TargetDistrict.ok
         THEN ScaleWeight(w2, "district", 13) ELSE w2, LAMBDA w3 :
    With(IF ByteLen(lead.Description) > 100
         THEN ScaleWeight(w3, "semantic", 13) ELSE w3, LAMBDA w4 :
        Normalize(w4)))))

\* Analyzer.heuristicAnalysis
heuristicAnalysis(lead) ==
    With(ToLower(Concat(Concat(lead.Title, <<32>>), lead.Description)), LAMBDA text :
    With(detectLeadType(text), LAMBDA detected :
    With(extractCriteriaFromRequirement(lead), LAMBDA criteria :
        [Weights  |-> adjustWeightsBasedOnData(detected.Weights, lead, criteria),
         Criteria |-> criteria,
         LeadType |-> detected.LeadType,
         UsedLLM  |-> FALSE])))

\* The replies of the chat-completion service to AnalyzeLeadIntent that the
\* model considers: a failure, a reply without weights and criteria, a reply
\* that repeats the requirement, and a reply with a room count of its own.
LLMFailure ==
    [err |-> TRUE, Weights |-> Weights(0, 0, 0, 0, 0), Criteria |-> EmptyCriteria,
     LeadType |-> "unknown"]

LLMReplies(lead) ==
    { LLMFailure,
      [err |-> FALSE, Weights |-> Weights(0, 0, 0, 0, 0), Criteria |-> EmptyCriteria,
       LeadType |-> "unknown"],
      [err |-> FALSE, Weights |-> Weights(10, 10, 10, 10, 60),
       Criteria |-> [EmptyCriteria EXCEPT !.TargetPrice = lead.Requirement.price,
                                          !.TargetRooms = lead.Requirement.roomNumber],
       LeadType |-> "luxury"],
      [err |-> FALSE, Weights |-> Weights(40, 40, 40, 40, 40),
       Criteria |-> [EmptyCriteria EXCEPT !.TargetRooms = Some(2)],
       LeadType |-> "family_oriented"] }

\* Analyzer.llmAnalysis on a reply that is not a failure
llmAnalysis(lead, resp) ==
    LET c == resp.Criteria
        any == c.TargetPrice.ok \/ c.TargetDistrict.ok \/ c.TargetRooms.ok \/ c.TargetArea.ok
    IN  [Weights  |-> With(resp.Weights, LAMBDA w : Normalize(w)),
         Criteria |-> IF any THEN Some(c) ELSE NoCriteria,
         LeadType |-> resp.LeadType,
         UsedLLM  |-> TRUE]

\* A variant of AnalyzeLead that keeps the result of a failed LLM call.
AnalyzeLeadNoFallback(lead, dynamicWeightsEnabled, llmEnabled, resp) ==
    IF ~dynamicWeightsEnabled THEN heuristicAnalysis(lead)
    ELSE IF llmEnabled THEN llmAnalysis(lead, resp) ELSE heuristicAnalysis(lead)

\* Analyzer.AnalyzeLead; it never reports an error
AnalyzeLead(lead, dynamicWeightsEnabled, llmEnabled, resp) ==
    IF ~dynamicWeightsEnabled THEN heuristicAnalysis(lead)
    ELSE IF llmEnabled
         THEN IF resp.err THEN heuristicAnalysis(lead) ELSE llmAnalysis(lead, resp)
         ELSE heuristicAnalysis(lead)

(***************************************************************************)
(* Property repository: the two retrieval queries.                         *)
(***************************************************************************)
NoMatches == <<>>

\* a retrieved row: domain.MatchedProperty before scoring (score fields nil)
Retrieved(p, similarity) ==
    [id |-> p, Similarity |-> similarity, Scored |-> FALSE, TotalScore |-> 0,
     PriceScore |-> 0, DistrictScore |-> 0, RoomsScore |-> 0, AreaScore |-> 0,
     SemanticScore |-> 0]

QueryResult(failed, matches) == [err |-> failed, matches |-> matches]

Take(s, n) == With(s, LAMBDA t : SubSeq(t, 1, IF Len(t) < n THEN Len(t) ELSE n))

\* the hard-filter clauses the builders append for hf, in the source's order
HardClauses(hf) ==
    (IF hf.City.ok /\ hf.City.v # <<>> THEN <<"city">> ELSE <<>>)
    \o (IF hf.PropertyType.ok THEN <<"property_type">> ELSE <<>>)
    \o (IF hf.MinRooms.ok THEN <<"min_rooms">> ELSE <<>>)
    \o (IF hf.MaxRooms.ok THEN <<"max_rooms">> ELSE <<>>)
    \o (IF hf.MinPrice.ok THEN <<"min_price">> ELSE <<>>)
    \o (IF hf.MaxPrice.ok THEN <<"max_price">> ELSE <<>>)

\* the soft-filter clauses of MatchPropertiesWithHardFilters
SoftClauses(filter, hf) ==
    (IF filter.Status.ok THEN <<"status">> ELSE <<>>)
    \o (IF filter.City.ok /\ ~hf.City.ok THEN <<"soft_city">> ELSE <<>>)
    \o (IF filter.MinPrice.ok /\ ~hf.MinPrice.ok THEN <<"soft_min_price">> ELSE <<>>)
    \o (IF filter.MaxPrice.ok /\ ~hf.MaxPrice.ok THEN <<"soft_max_price">> ELSE <<>>)
    \o (IF filter.PropertyType.ok /\ ~hf.PropertyType.ok THEN <<"soft_property_type">> ELSE <<>>)
    \o (IF filter.MinRooms.ok /\ ~hf.MinRooms.ok THEN <<"soft_min_rooms">> ELSE <<>>)
    \o (IF filter.MaxRooms.ok /\ ~hf.MaxRooms.ok THEN <<"soft_max_rooms">> ELSE <<>>)

\* the soft-filter clauses of the RRF query of HybridSearch: status only
HybridSoftClauses(filter) == IF filter.Status.ok THEN <<"status">> ELSE <<>>

\* the SQL meaning of one clause on row p (a comparison with NULL is not true)
ClauseHolds(clause, p, filter, hf) ==
    LET row == Properties[p]
    IN  CASE clause = "city" ->
               row.City.ok /\ ToLower(row.City.v) = ToLower(hf.City.v)
          [] clause = "property_type" -> row.PropertyType = hf.PropertyType.v
          [] clause = "min_rooms" -> ~row.Rooms.ok \/ row.Rooms.v >= hf.MinRooms.v
          [] clause = "max_rooms" -> ~row.Rooms.ok \/ row.Rooms.v <= hf.MaxRooms.v
          [] clause = "min_price" -> ~row.Price.ok \/ row.Price.v >= hf.MinPrice.v
          [] clause = "max_price" -> ~row.Price.ok \/ row.Price.v <= hf.MaxPrice.v
          [] clause = "status" -> row.Status = filter.Status.v
          [] clause = "soft_city" ->
               row.City.ok /\ ToLower(row.City.v) = ToLower(filter.City.v)
          [] clause = "soft_min_price" -> row.Price.ok /\ row.Price.v >= filter.MinPrice.v
          [] clause = "soft_max_price" -> row.Price.ok /\ row.Price.v <= filter.MaxPrice.v
          [] clause = "soft_property_type" -> row.PropertyType = filter.PropertyType.v
          [] clause = "soft_min_rooms" -> row.Rooms.ok /\ row.Rooms.v >= filter.MinRooms.v
          [] clause = "soft_max_rooms" -> row.Rooms.ok /\ row.Rooms.v <= filter.MaxRooms.v

Where(clauses, p, filter, hf) ==
    \A k \in 1..Len(clauses) : ClauseHolds(clauses[k], p, filter, hf)

\* db.Query: the statement is accepted when the placeholders it mentions are
\* exactly $1..$nargs and none of them stands in two places of different type
BindOK(placeholders, nargs, clash) == placeholders = 1..nargs /\ ~clash

\* ORDER BY embedding <=> $1: rows of S by decreasing similarity to lead l
Closer(l, a, b) ==
    \/ Similarity(l, a) > Similarity(l, b)
    \/ Similarity(l, a) = Similarity(l, b) /\ a < b

ByDistance(l, S) ==
    With(S, LAMBDA T :
        [i \in 1..Cardinality(T) |->
            CHOOSE p \in T : Cardinality({q \in T : Closer(l, q, p)}) = i - 1])

\* A variant of the vector query that drops the hard city clause.
VectorClausesNoCity(filter, hf) ==
    SelectSeq(HardClauses(hf), LAMBDA c : c # "city") \o SoftClauses(filter, hf)

\* the WHERE clauses of MatchPropertiesWithHardFilters
VectorClauses(filter, hf) == HardClauses(hf) \o SoftClauses(filter, hf)

\* PropertyRepository.MatchPropertiesWithHardFilters
MatchPropertiesWithHardFilters(l, filter, hf, limit, dbOK) ==
    With(VectorClauses(filter, hf), LAMBDA clauses :
        LET n == Len(clauses)
            S == {p \in PropertyIds :
                     Properties[p].HasEmbedding /\ Where(clauses, p, filter, hf)}
        IN  IF ~dbOK \/ ~BindOK((1..(1 + n)) \cup {2 + n}, n + 2, FALSE)
            THEN QueryResult(TRUE, NoMatches)
            ELSE With(Take(ByDistance(l, S), limit), LAMBDA top :
                     QueryResult(FALSE,
                         [i \in 1..Len(top) |->
                             Retrieved(top[i], Similarity(l, top[i]))])))

\* ORDER BY ts_rank(...) DESC: rows of S by decreasing full-text rank
RanksHigher(l, a, b) ==
    \/ FtsRank(l, a) > FtsRank(l, b)
    \/ FtsRank(l, a) = FtsRank(l, b) /\ a < b

ByFtsRank(l, S) ==
    With(S, LAMBDA T :
        [i \in 1..Cardinality(T) |->
            CHOOSE p \in T : Cardinality({q \in T : RanksHigher(l, q, p)}) = i - 1])

\* the position of p in sequence s, 0 when p is not in it
IndexOf(s, p) ==
    IF \E i \in 1..Len(s) : s[i] = p THEN CHOOSE i \in 1..Len(s) : s[i] = p ELSE 0

Range(s) == {s[i] : i \in 1..Len(s)}

\* the smoothing constant of the RRF score
RRFk == 60

\* COALESCE($4 / (60 + vector_rank), 0) + COALESCE($5 / (60 + fts_rank), 0)
\* as the fraction num / den; rank 0 stands for a missing side of the join
RRFScore(vectorRank, ftsRank, vectorWeight, fulltextWeight) ==
    LET dv == IF vectorRank > 0 THEN RRFk + vectorRank ELSE 1
        df == IF ftsRank > 0 THEN RRFk + ftsRank ELSE 1
    IN  [num |-> (IF vectorRank > 0 THEN vectorWeight ELSE 0) * df
                 + (IF ftsRank > 0 THEN fulltextWeight ELSE 0) * dv,
         den |-> dv * df]

\* the RRF query of HybridSearch on a statement the database accepted
RRFQuery(l, clauses, vectorWeight, fulltextWeight, filter, hf, limit) ==
    With(Take(ByDistance(l, {p \in PropertyIds :
                  Properties[p].HasEmbedding /\ Where(clauses, p, filter, hf)}),
              limit * 2), LAMBDA vs :
    With(Take(ByFtsRank(l, {p \in PropertyIds :
                  FtsRank(l, p) > 0 /\ Where(clauses, p, filter, hf)}),
              limit * 2), LAMBDA fs :
    With([p \in Range(vs) \cup Range(fs) |->
             RRFScore(IndexOf(vs, p), IndexOf(fs, p), vectorWeight, fulltextWeight)],
         LAMBDA score :
        LET combined == DOMAIN score
            above(a, b) ==
                \/ score[a].num * score[b].den > score[b].num * score[a].den
                \/ score[a].num * score[b].den = score[b].num * score[a].den /\ a < b
        IN  With(Take([i \in 1..Cardinality(combined) |->
                          CHOOSE p \in combined :
                              Cardinality({q \in combined : above(q, p)}) = i - 1],
                      limit), LAMBDA top :
                [i \in 1..Len(top) |->
                    Retrieved(top[i], IF IndexOf(vs, top[i]) > 0
                                      THEN Similarity(l, top[i]) ELSE 0)]))))

\* the guard at the head of HybridSearch: no text query, or the full-text
\* branch switched off
HybridFallsBack(searchQuery, fulltextWeight) == searchQuery = <<>> \/ fulltextWeight <= 0

\* the number the final LIMIT of the RRF statement is written with
RRFLimitPlaceholder == 6

\* the number the k-th filter clause is written with: paramCount starts at 6
RRFClausePlaceholder(k) == 5 + k

\* params_list: the five fixed arguments, the value of each filter clause as
\* it is appended, and the limit last
RRFArgs(clauses) ==
    <<"embedding", "limit*2", "query", "vector_weight", "fulltext_weight">>
    \o clauses \o <<"limit">>

\* the placeholders the RRF statement mentions
RRFPlaceholders(clauses) ==
    (1..5) \cup {RRFLimitPlaceholder}
    \cup {RRFClausePlaceholder(k) : k \in 1..Len(clauses)}

\* the RRF statement of HybridSearch
HybridRRF(l, vectorWeight, fulltextWeight, filter, hf, limit, dbOK) ==
    With(HardClauses(hf) \o HybridSoftClauses(filter), LAMBDA clauses :
             LET n == Len(clauses)
             IN  IF ~dbOK \/ ~BindOK(RRFPlaceholders(clauses), Len(RRFArgs(clauses)), n > 0)
                 THEN QueryResult(TRUE, NoMatches)
                 ELSE QueryResult(FALSE,
                          RRFQuery(l, clauses, vectorWeight, fulltextWeight, filter, hf,
                                   limit)))

\* A variant of HybridSearch without the guard at its head.
HybridSearchAlwaysRRF(l, searchQuery, vectorWeight, fulltextWeight, filter, hf, limit, dbOK) ==
    HybridRRF(l, vectorWeight, fulltextWeight, filter, hf, limit, dbOK)

\* PropertyRepository.HybridSearch.  The filter clauses are numbered from $6,
\* the number the final LIMIT already carries, and the limit is appended
\* after the filter arguments.
HybridSearch(l, searchQuery, vectorWeight, fulltextWeight, filter, hf, limit, dbOK) ==
    IF HybridFallsBack(searchQuery, fulltextWeight)
    THEN MatchPropertiesWithHardFilters(l, filter, hf, limit, dbOK)
    ELSE HybridRRF(l, vectorWeight, fulltextWeight, filter, hf, limit, dbOK)
(***************************************************************************)
(* Property service: hard filters, reranker, weighted ranking.             *)
(***************************************************************************)
\* int64(float64(t) * 0.8) and int64(float64(t) * 1.2)
PriceFloor(t) == (t * 8) \div 10

PriceCeiling(t) == (t * 12) \div 10

\* Service.buildHardFiltersFromLead
buildHardFiltersFromLead(lead, criteria) ==
    LET city == IF lead.City.ok /\ lead.City.v # <<>>
                THEN Some(NormalizeCity(lead.City.v))
                ELSE With(ExtractCityFromAddress(lead.Description), LAMBDA extracted :
                         IF extracted.ok THEN Some(NormalizeCity(extracted.v)) ELSE NoStr)
        rooms == criteria.ok /\ criteria.v.TargetRooms.ok
        price == criteria.ok /\ criteria.v.TargetPrice.ok
        minR  == criteria.v.TargetRooms.v - 1
    IN  [City         |-> city,
         PropertyType |-> NoName,
         MinRooms     |-> IF rooms THEN Some(IF minR < 1 THEN 1 ELSE minR) ELSE NoInt,
         MaxRooms     |-> IF rooms THEN Some(criteria.v.TargetRooms.v + 1) ELSE NoInt,
         MinPrice     |-> IF price THEN Some(PriceFloor(criteria.v.TargetPrice.v)) ELSE NoInt,
         MaxPrice     |-> IF price THEN Some(PriceCeiling(criteria.v.TargetPrice.v)) ELSE NoInt]

\* the candidate count of MatchPropertiesAdvanced
DefaultCandidates == 50

CandidateLimit(rerankerCandidates, limit) ==
    LET c == IF rerankerCandidates <= 0 THEN DefaultCandidates ELSE rerankerCandidates
    IN  IF c < limit THEN limit * 5 ELSE c

\* the fetch limit of MatchPropertiesWeighted
FetchLimit(limit, useWeightedRanking) ==
    IF useWeightedRanking THEN (IF limit * 5 > 100 THEN 100 ELSE limit * 5) ELSE limit

\* The replies of the reranker service to rerank(query, documents, top_n)
\* that the model considers, for n documents: a failure; the first top_n
\* documents in the given order; the last top_n documents, last first; all
\* n documents, last first (a service that ignores top_n); a reply with an
\* index that is out of range.  Scores decrease along the reply.
RerankReplyKinds == {"error", "identity", "reverse", "all", "stray"}

\* Further replies, considered for applyReranker on its own: a reply with a
\* negative index, and one that names the first document twice.
RerankFaultKinds == {"negative", "repeated"}

RerankScore(i) == 900 - 100 * (i - 1)

RerankReply(kind, n, topN) ==
    LET k == IF topN > 0 /\ topN < n THEN topN ELSE n
        index(i) == CASE kind = "identity" -> i - 1
                      [] kind = "reverse"  -> n - i
                      [] kind = "all"      -> n - i
                      [] kind = "stray"    -> IF i = 1 THEN n ELSE i - 2
                      [] kind = "negative" -> IF i = 1 THEN 0 - 1 ELSE i - 2
                      [] kind = "repeated" -> 0
                      [] kind = "error"    -> 0
        len == CASE kind = "all" -> n
                 [] kind \in {"stray", "negative", "repeated"} -> 2
                 [] kind = "error" -> 0
                 [] OTHER -> k
    IN  [err     |-> kind = "error",
         Results |-> [i \in 1..len |-> [Index |-> index(i), RelevanceScore |-> RerankScore(i)]]]

\* the outcome of applyReranker: (nil, err), the reranked candidates, or a
\* runtime panic
Reranked(failed, matches, panic) == [err |-> failed, matches |-> matches, panic |-> panic]

\* Service.applyReranker on the reply of the reranker client: a failure
\* gives (nil, err); otherwise the candidates the reply names, in its order,
\* with the mean of the two scores as similarity.  The loop indexes the
\* candidates with every index below their number: a negative one panics.
applyReranker(candidates, resp) ==
    IF resp.err THEN Reranked(TRUE, NoMatches, FALSE)
    ELSE IF \E i \in 1..Len(resp.Results) : resp.Results[i].Index < 0
    THEN Reranked(FALSE, NoMatches, TRUE)
    ELSE With(SelectSeq(resp.Results, LAMBDA r : r.Index < Len(candidates)), LAMBDA kept :
             Reranked(FALSE,
                 [i \in 1..Len(kept) |->
                     [candidates[kept[i].Index + 1] EXCEPT
                         !.Similarity = (@ + kept[i].RelevanceScore) \div 2]],
                 FALSE))

\* the candidate lists handed to applyReranker, and the result sizes asked for
RerankCandidates ==
    {<<Retrieved(1, 900)>>, <<Retrieved(1, 900), Retrieved(3, 500)>>,
     <<Retrieved(1, 900), Retrieved(3, 500), Retrieved(6, 0 - 200)>>}

RerankTopN == {1, 2, 10}

\* a call of Service.applyReranker
CallApplyReranker(candidates, kind, topN) ==
    /\ call.fn = "idle"
    /\ \E resp \in {RerankReply(kind, Len(candidates), topN)} :
          call' = [fn |-> "applyReranker", candidates |-> candidates, kind |-> kind,
                   topN |-> topN, resp |-> resp, out |-> applyReranker(candidates, resp)]
    /\ UNCHANGED <<idxVars, matchVars, metricsVars>>

Abs(x) == IF x < 0 THEN -x ELSE x

Max0(x) == IF x > 0 THEN x ELSE 0

\* Service.calcPriceScore, in thousandths
calcPriceScore(objPrice, c) ==
    IF ~objPrice.ok \/ ~c.ok \/ ~c.v.TargetPrice.ok THEN 500
    ELSE IF c.v.TargetPrice.v = 0 THEN 500
    ELSE LET t == c.v.TargetPrice.v
             d == Abs(objPrice.v - t)
         IN  IF d * 100 <= 20 * t THEN 1000 - (1500 * d) \div t
             ELSE Max0(840 - (700 * d) \div t)

\* the byte-wise toLower of the service: ASCII letters only
asciiToLower(s) ==
    With(s, LAMBDA t :
        [i \in 1..Len(t) |-> IF t[i] >= 65 /\ t[i] <= 90 THEN t[i] + 32 ELSE t[i]])

\* Service.calcDistrictScore
calcDistrictScore(address, c) ==
    IF ~c.ok \/ address = <<>> THEN 300
    ELSE With(asciiToLower(address), LAMBDA addrLower :
             IF c.v.TargetDistrict.ok
                /\ Contains(addrLower, asciiToLower(c.v.TargetDistrict.v)) THEN 1000
             ELSE IF \E k \in 1..Len(c.v.PreferredDistricts) :
                        Contains(addrLower, asciiToLower(c.v.PreferredDistricts[k])) THEN 700
             ELSE 300)

\* Service.calcRoomsScore
calcRoomsScore(objRooms, c) ==
    IF ~objRooms.ok \/ ~c.ok \/ ~c.v.TargetRooms.ok THEN 500
    ELSE LET diff == Abs(objRooms.v - c.v.TargetRooms.v)
         IN  CASE diff = 0 -> 1000 [] diff = 1 -> 600 [] diff = 2 -> 300 [] OTHER -> 100

\* Service.calcAreaScore
calcAreaScore(objArea, c) ==
    IF ~objArea.ok \/ ~c.ok \/ ~c.v.TargetArea.ok THEN 500
    ELSE IF c.v.TargetArea.v = 0 THEN 500
    ELSE LET t == c.v.TargetArea.v
             d == Abs(objArea.v - t)
         IN  IF d * 100 <= 15 * t THEN 1000 - (2000 * d) \div t
             ELSE Max0(910 - (1400 * d) \div t)

\* Service.calculateScores; TotalScore is the numerator over w.den
calculateScores(mp, w, criteria) ==
    With([semantic |-> IF mp.Similarity < 0
                       THEN (mp.Similarity + 1000) \div 2 ELSE mp.Similarity,
          price    |-> calcPriceScore(Properties[mp.id].Price, criteria),
          district |-> calcDistrictScore(Properties[mp.id].Address, criteria),
          rooms    |-> calcRoomsScore(Properties[mp.id].Rooms, criteria),
          area     |-> calcAreaScore(Properties[mp.id].Area, criteria)], LAMBDA s :
    LET semantic == s.semantic
        price    == s.price
        district == s.district
        rooms    == s.rooms
        area     == s.area
    IN  [mp EXCEPT !.Scored = TRUE,
                   !.TotalScore = w.price * price + w.district * district + w.rooms * rooms
                                  + w.area * area + w.semantic * semantic,
                   !.PriceScore = price, !.DistrictScore = district, !.RoomsScore = rooms,
                   !.AreaScore = area, !.SemanticScore = semantic])

\* A variant of the exchange that overwrites one of the two elements.
SwapOverwrite(s, i, j) == [s EXCEPT ![i] = s[j]]

\* matches[i], matches[j] = matches[j], matches[i]
Swap(s, i, j) == [s EXCEPT ![i] = s[j], ![j] = s[i]]

\* the inner and the outer loop of the sort in rankMatches
RECURSIVE SortInner(_, _, _)
SortInner(ms, i, j) ==
    IF j > Len(ms) THEN ms
    ELSE With(IF ms[j].TotalScore > ms[i].TotalScore THEN Swap(ms, i, j) ELSE ms,
              LAMBDA swapped : SortInner(swapped, i, j + 1))

RECURSIVE SortOuter(_, _)
SortOuter(ms, i) ==
    IF i >= Len(ms) THEN ms
    ELSE With(SortInner(ms, i, i + 1), LAMBDA sorted : SortOuter(sorted, i + 1))

\* Service.rankMatches
rankMatches(matches, w, criteria) ==
    With([i \in 1..Len(matches) |-> calculateScores(matches[i], w, criteria)],
         LAMBDA scored : SortOuter(scored, 1))

(***************************************************************************)
(* The match calls: gRPC handler and service method as one step.           *)
(***************************************************************************)
\* config.SearchConfig together with the kind of client that is wired in
\* (RerankerEnabled, LLMEnabled: the HTTP-backed client, not the no-op one).
\* The weights are in hundredths.  A setting that is never read keeps one
\* value: the full-text weight without hybrid search, the kind of reranker
\* client without UseReranker, the kind of LLM client without dynamic weights.
Configs ==
    {c \in [HybridSearchEnabled : BOOLEAN, VectorWeight : {70}, FulltextWeight : {0, 30},
            UseReranker : BOOLEAN, RerankerEnabled : BOOLEAN, RerankerCandidates : {0, 3},
            DynamicWeightsEnabled : BOOLEAN, LLMEnabled : BOOLEAN] :
        /\ c.HybridSearchEnabled \/ c.FulltextWeight = 30
        /\ c.UseReranker \/ ~c.RerankerEnabled
        /\ c.DynamicWeightsEnabled \/ ~c.LLMEnabled}

\* the defaults of the configuration keys, with the no-op clients
DefaultConfig ==
    [HybridSearchEnabled |-> TRUE, VectorWeight |-> 70, FulltextWeight |-> 30,
     UseReranker |-> FALSE, RerankerEnabled |-> FALSE, RerankerCandidates |-> 50,
     DynamicWeightsEnabled |-> FALSE, LLMEnabled |-> FALSE]

\* the limit the handlers use when the request carries none
DefaultLimit == 10

\* lead_id of a request: a stored lead, an id no lead has (0), a text that
\* is not a UUID (-1)
UnknownLead == 0

MalformedLead == -1

LeadRefs == LeadIds \cup {UnknownLead, MalformedLead}

\* the limits a request may carry; 0 stands for an absent limit
Limits == 0..MaxLimit

\* the filters a request may carry
AdvancedFilters ==
    { EmptyFilter,
      [EmptyFilter EXCEPT !.Status = Some("PUBLISHED")],
      [EmptyFilter EXCEPT !.City = Some(FilterCity)],
      [EmptyFilter EXCEPT !.MinRooms = Some(4)] }

WeightedFilters ==
    { EmptyFilter, [EmptyFilter EXCEPT !.MinRooms = Some(4)] }

\* what can go wrong in the database during one call
DbFailures == {"none", "lead", "search"}

IdleMatch ==
    [pc |-> "idle", rpc |-> None, lead |-> UnknownLead, limit |-> 0, code |-> None,
     failure |-> None, analyzed |-> FALSE, usedLLM |-> FALSE, weights |-> DefaultWeights,
     criteria |-> NoCriteria, hf |-> EmptyHardFilters, path |-> None,
     searched |-> FALSE, candidateLimit |-> 0, retrieved |-> NoMatches,
     reranker |-> None, handed |-> NoMatches, ranked |-> NoMatches, out |-> NoMatches,
     filter |-> EmptyFilter]

\* a call that ends before the service reaches retrieval
Rejected(rpc, ref, limit, code, failure) ==
    [IdleMatch EXCEPT !.pc = "returned", !.rpc = rpc, !.lead = ref, !.limit = limit,
                      !.code = code, !.failure = failure]

\* LeadService.GetLead as the match methods see it
GetLeadErr(ref, dbFail) ==
    IF dbFail = "lead" THEN "db" ELSE IF ref \notin LeadIds THEN "notfound" ELSE None

\* the status code of the handlers for an error of the service method
StatusCode(failure) == IF failure = None THEN "OK" ELSE "Internal"

\* the retrieval path MatchPropertiesAdvanced takes
SearchPath == IF cfg.HybridSearchEnabled /\ cfg.FulltextWeight > 0 THEN "rrf" ELSE "vector"

\* Service.MatchPropertiesAdvanced for a stored lead that has an embedding:
\* the record of what the call computed
AdvancedRun(l, filter, limit, llmResp, rrKind, dbFail) ==
    LET lead     == Leads[l]
        analyzed == cfg.DynamicWeightsEnabled
        candidateLimit == CandidateLimit(cfg.RerankerCandidates, limit)
        searchQuery == Concat(Concat(lead.Title, <<32>>), lead.Description)
    IN
    With(IF analyzed
         THEN AnalyzeLead(lead, cfg.DynamicWeightsEnabled, cfg.LLMEnabled, llmResp)
         ELSE [Weights |-> DefaultWeights, Criteria |-> NoCriteria,
               LeadType |-> "balanced", UsedLLM |-> FALSE], LAMBDA analysis :
    With(buildHardFiltersFromLead(lead, analysis.Criteria), LAMBDA hf :
    With(IF cfg.HybridSearchEnabled
         THEN HybridSearch(l, searchQuery, cfg.VectorWeight, cfg.FulltextWeight,
                           filter, hf, candidateLimit, dbFail # "search")
         ELSE MatchPropertiesWithHardFilters(l, filter, hf, candidateLimit,
                                             dbFail # "search"), LAMBDA found :
        IF found.err
        THEN [Rejected("advanced", l, limit, StatusCode("search"), "search") EXCEPT
                 !.analyzed = analyzed, !.usedLLM = analysis.UsedLLM,
                 !.weights = analysis.Weights, !.criteria = analysis.Criteria, !.hf = hf,
                 !.path = SearchPath, !.searched = TRUE, !.candidateLimit = candidateLimit,
                 !.filter = filter]
        ELSE
    With(IF cfg.UseReranker /\ cfg.RerankerEnabled /\ Len(found.matches) > 0
         THEN With(applyReranker(found.matches,
                                 RerankReply(rrKind, Len(found.matches), limit)),
                   LAMBDA reranked :
                       [reranker |-> IF reranked.err THEN "failed" ELSE "applied",
                        matches  |-> reranked.matches])
         ELSE [reranker |-> "skipped", matches |-> found.matches], LAMBDA handed :
    With(IF Len(handed.matches) > 0
         THEN rankMatches(handed.matches, analysis.Weights, analysis.Criteria)
         ELSE handed.matches, LAMBDA ranked :
        [pc |-> "returned", rpc |-> "advanced", lead |-> l, limit |-> limit,
         code |-> StatusCode(None), failure |-> None,
         analyzed |-> analyzed, usedLLM |-> analysis.UsedLLM,
         weights |-> analysis.Weights, criteria |-> analysis.Criteria, hf |-> hf,
         path |-> SearchPath, searched |-> TRUE, candidateLimit |-> candidateLimit,
         retrieved |-> found.matches, reranker |-> handed.reranker,
         handed |-> handed.matches, ranked |-> ranked,
         out |-> Take(ranked, limit), filter |-> filter])))))

\* the MatchPropertiesAdvanced RPC: handler and service method
MatchPropertiesAdvanced(ref, filter, limitIn, llmResp, rrKind, dbFail) ==
    LET limit == IF limitIn > 0 THEN limitIn ELSE DefaultLimit
        err   == GetLeadErr(ref, dbFail)
    IN  /\ m.pc = "idle"
        /\ m' = IF ref = MalformedLead
                THEN Rejected("advanced", ref, limit, "InvalidArgument", "lead_id")
                ELSE IF err # None
                THEN Rejected("advanced", ref, limit, StatusCode(err), err)
                ELSE IF Leads[ref].Embedding.dim = 0
                THEN Rejected("advanced", ref, limit, StatusCode("no embedding"),
                              "no embedding")
                ELSE AdvancedRun(ref, filter, limit, llmResp, rrKind, dbFail)
        /\ UNCHANGED <<cfg, idxVars, callVars, metricsVars>>

\* Service.MatchPropertiesWeighted for a stored lead that has an embedding
WeightedRun(l, filter, limit, weights, criteria, useWeightedRanking, dbFail) ==
    LET lead       == Leads[l]
        fetchLimit == FetchLimit(limit, useWeightedRanking)
    IN
    With(buildHardFiltersFromLead(lead, criteria), LAMBDA hf :
    With(MatchPropertiesWithHardFilters(l, filter, hf, fetchLimit, dbFail # "search"),
         LAMBDA found :
    With(IF weights.ok THEN Normalize(weights.v) ELSE DefaultWeights, LAMBDA w :
        IF found.err
        THEN [Rejected("weighted", l, limit, StatusCode("search"), "search") EXCEPT
                 !.criteria = criteria, !.hf = hf, !.path = "vector", !.searched = TRUE,
                 !.candidateLimit = fetchLimit, !.filter = filter]
        ELSE
    With(IF useWeightedRanking /\ Len(found.matches) > 0
         THEN rankMatches(found.matches, w, criteria)
         ELSE found.matches, LAMBDA ranked :
        [pc |-> "returned", rpc |-> "weighted", lead |-> l, limit |-> limit,
         code |-> StatusCode(None), failure |-> None,
         analyzed |-> FALSE, usedLLM |-> FALSE,
         weights |-> w, criteria |-> criteria, hf |-> hf, path |-> "vector",
         searched |-> TRUE, candidateLimit |-> fetchLimit,
         retrieved |-> found.matches, reranker |-> "skipped",
         handed |-> found.matches, ranked |-> ranked,
         out |-> IF useWeightedRanking /\ Len(found.matches) > 0
                 THEN Take(ranked, limit) ELSE ranked,
         filter |-> filter]))))

\* the request metadata of MatchProperties: x-weights-preset ("" when
\* absent), x-use-weighted-ranking = "false", x-criteria-json
PresetHeaders == {"", "family", "no-such-preset"}

CriteriaHeaders == {NoCriteria, Some([EmptyCriteria EXCEPT !.TargetRooms = Some(3)])}

\* the MatchProperties RPC: handler and service method
MatchProperties(ref, filter, limitIn, preset, criteria, useWeightedRanking, dbFail) ==
    LET limit   == IF limitIn > 0 THEN limitIn ELSE DefaultLimit
        weights == IF preset \in WeightPresetIds
                   THEN Some(GetWeightPresetByID(preset)) ELSE Some(DefaultWeights)
        err     == GetLeadErr(ref, dbFail)
    IN  /\ m.pc = "idle"
        /\ m' = IF ref = MalformedLead
                THEN Rejected("weighted", ref, limit, "InvalidArgument", "lead_id")
                ELSE IF err # None
                THEN Rejected("weighted", ref, limit, StatusCode(err), err)
                ELSE IF Leads[ref].Embedding.dim = 0
                THEN Rejected("weighted", ref, limit, StatusCode("no embedding"),
                              "no embedding")
                ELSE WeightedRun(ref, filter, limit, weights, criteria,
                                 useWeightedRanking, dbFail)
        /\ UNCHANGED <<cfg, idxVars, callVars, metricsVars>>

\* the response reaches the caller; the server is ready for the next call
Respond ==
    /\ m.pc = "returned"
    /\ m' = IdleMatch
    /\ UNCHANGED <<cfg, idxVars, callVars, metricsVars>>

(***************************************************************************)
(* Specification of the match calls.                                       *)
(***************************************************************************)
InitMatch ==
    /\ cfg \in Configs
    /\ m = IdleMatch
    /\ call = IdleCall
    /\ met = NewMetrics("reranker")
    /\ mlMode = "real"
    /\ rows = [i \in Ids |-> NoRow]
    /\ tasks = [t \in Slots |-> IdleTask]
    /\ rx = IdleRx
    /\ shutdown = FALSE

\* the inputs of a call that no step of the call reads are not enumerated:
\* a request for a lead that cannot be matched carries no filter, and a
\* service that is not called gives no reply
Matchable(ref) == ref \in LeadIds /\ Leads[ref].Embedding.dim > 0

RerankerCalled == cfg.UseReranker /\ cfg.RerankerEnabled

LLMCalled == cfg.DynamicWeightsEnabled /\ cfg.LLMEnabled

NextMatch ==
    \/ \E ref \in LeadRefs, limitIn \in Limits :
          \E filter \in (IF Matchable(ref) THEN AdvancedFilters ELSE {EmptyFilter}),
             dbFail \in (IF Matchable(ref) THEN DbFailures ELSE {"none", "lead"}),
             rrKind \in (IF Matchable(ref) /\ RerankerCalled
                         THEN RerankReplyKinds ELSE {"identity"}),
             llmResp \in (IF Matchable(ref) /\ LLMCalled
                          THEN LLMReplies(Leads[ref]) ELSE {LLMFailure}) :
              MatchPropertiesAdvanced(ref, filter, limitIn, llmResp, rrKind, dbFail)
    \/ \E ref \in LeadRefs, limitIn \in Limits :
          \E filter \in (IF Matchable(ref) THEN WeightedFilters ELSE {EmptyFilter}),
             dbFail \in (IF Matchable(ref) THEN DbFailures ELSE {"none", "lead"}),
             preset \in (IF Matchable(ref) THEN PresetHeaders ELSE {""}),
             criteria \in (IF Matchable(ref) THEN CriteriaHeaders ELSE {NoCriteria}),
             useWeightedRanking \in BOOLEAN :
              MatchProperties(ref, filter, limitIn, preset, criteria,
                              useWeightedRanking, dbFail)
    \/ Respond

SpecMatch == InitMatch /\ [][NextMatch]_vars

(***************************************************************************)
(* Single calls of the functions of the matcher.  A call records its       *)
(* arguments and its result in `call`; Return forgets it.                  *)
(***************************************************************************)
\* longest candidate list handed to rankMatches
MaxRank == 3

\* the candidates of those lists: two properties with the same price, rooms,
\* area and district and one that differs, each with a negative, a middle
\* and a high similarity
RankCandidates == {Retrieved(p, s) : p \in {1, 3, 6}, s \in {-200, 500, 900}}

RankInputs == UNION {[1..n -> RankCandidates] : n \in 0..MaxRank}

\* the default weights, and semantic similarity alone
RankWeights == {DefaultWeights, Normalize(Weights(0, 0, 0, 0, 50))}

\* no criteria, and the criteria of the requirement of lead 1
RankCriteria == {NoCriteria, extractCriteriaFromRequirement(Leads[1])}

\* a call of Service.rankMatches
CallRankMatches(matches, w, criteria) ==
    /\ call.fn = "idle"
    /\ call' = [fn |-> "rankMatches", matches |-> matches, w |-> w,
                criteria |-> criteria, out |-> rankMatches(matches, w, criteria)]
    /\ UNCHANGED <<idxVars, matchVars, metricsVars>>

\* the leads a search can be made for: the stored leads with an embedding
SearchLeads == {l \in LeadIds : Leads[l].Embedding.dim > 0}

\* the text query of a search: none, or the title and description of the lead
SearchQueries(l) == {<<>>, Concat(Concat(Leads[l].Title, <<32>>), Leads[l].Description)}

\* the full-text weights of a search, in hundredths
FulltextWeights == {-30, 0, 30}

\* the hard filters of a search: none, those of the lead alone, those of the
\* lead and its requirement
SearchHardFilters(l) ==
    { EmptyHardFilters,
      buildHardFiltersFromLead(Leads[l], NoCriteria),
      buildHardFiltersFromLead(Leads[l], extractCriteriaFromRequirement(Leads[l])) }

\* a call of PropertyRepository.HybridSearch
CallHybridSearch(l, searchQuery, fulltextWeight, filter, hf, limit, dbOK) ==
    /\ call.fn = "idle"
    /\ call' = [fn |-> "HybridSearch", l |-> l, searchQuery |-> searchQuery,
                vectorWeight |-> 70, fulltextWeight |-> fulltextWeight,
                filter |-> filter, hf |-> hf, limit |-> limit, dbOK |-> dbOK,
                statement |-> IF HybridFallsBack(searchQuery, fulltextWeight)
                              THEN "vector" ELSE "rrf",
                out |-> HybridSearch(l, searchQuery, 70, fulltextWeight, filter, hf,
                                     limit, dbOK)]
    /\ UNCHANGED <<idxVars, matchVars, metricsVars>>

\* most keywords of one family in the text of a lead
MaxKw == 2

\* the keyword families in the order detectLeadType examines them
KeywordFamilies ==
    <<budgetKeywords, locationKeywords, familyKeywords, investorKeywords, luxuryKeywords>>

\* the first n keywords of a family, each followed by ", "
RECURSIVE FirstKeywords(_, _)
FirstKeywords(keywords, n) ==
    IF n = 0 THEN <<>> ELSE FirstKeywords(keywords, n - 1) \o keywords[n] \o <<44, 32>>

\* the titles of the leads that are analysed: for every family a number of
\* its keywords, the first letter in upper case
KeywordTitles ==
    { With(FirstKeywords(KeywordFamilies[1], n[1]) \o FirstKeywords(KeywordFamilies[2], n[2])
           \o FirstKeywords(KeywordFamilies[3], n[3]) \o FirstKeywords(KeywordFamilies[4], n[4])
           \o FirstKeywords(KeywordFamilies[5], n[5]), LAMBDA t :
               IF t = <<>> THEN t ELSE <<ToUpperCp(t[1])>> \o Tail(t))
      : n \in [1..5 -> 0..MaxKw] }

\* a call of Analyzer.detectLeadType on the text heuristicAnalysis builds
\* from the title and the description of a lead
CallDetectLeadType(title, description) ==
    /\ call.fn = "idle"
    /\ \E text \in {ToLower(Concat(Concat(title, <<32>>), description))} :
           call' = [fn |-> "detectLeadType", title |-> title, description |-> description,
                    text |-> text, out |-> detectLeadType(text)]
    /\ UNCHANGED <<idxVars, matchVars, metricsVars>>

\* a call of Analyzer.AnalyzeLead; its second result is nil on every return
CallAnalyzeLead(l, dynamicWeightsEnabled, llmEnabled, resp) ==
    /\ call.fn = "idle"
    /\ call' = [fn |-> "AnalyzeLead", lead |-> l,
                dynamicWeightsEnabled |-> dynamicWeightsEnabled,
                llmEnabled |-> llmEnabled, resp |-> resp, err |-> None,
                out |-> AnalyzeLead(Leads[l], dynamicWeightsEnabled, llmEnabled, resp)]
    /\ UNCHANGED <<idxVars, matchVars, metricsVars>>

\* the values of one weight, in hundredths: negative, zero and positive
WeightValues == {-50, 0, 30, 50}

\* a call of MatchWeights.Normalize
CallNormalize(w) ==
    /\ call.fn = "idle"
    /\ call' = [fn |-> "Normalize", w |-> w, out |-> Normalize(w)]
    /\ UNCHANGED <<idxVars, matchVars, metricsVars>>

(***************************************************************************)
(* Clarification agent (package clarification) and the two helpers of the  *)
(* weights analyzer it uses.  A requirement key is present when the field  *)
(* of the requirement record is; the quality score is in hundredths.       *)
(***************************************************************************)
\* Analyzer.GetMissingFields
GetMissingFields(lead) ==
    (IF ~lead.City.ok \/ lead.City.v = <<>> THEN <<"city">> ELSE <<>>)
    \o (IF ~lead.Requirement.price.ok THEN <<"price">> ELSE <<>>)
    \o (IF ~lead.Requirement.roomNumber.ok THEN <<"roomNumber">> ELSE <<>>)
    \o (IF ~lead.Requirement.area.ok THEN <<"area">> ELSE <<>>)
    \o (IF ~lead.Requirement.district.ok THEN <<"district">> ELSE <<>>)

\* Analyzer.IsShortLead
IsShortLead(lead) ==
    \/ ByteLen(lead.Description) < 30
    \/ lead.Requirement = NoRequirement
    \/ ~lead.Requirement.price.ok /\ ~lead.Requirement.roomNumber.ok

\* Agent.calculateLeadQuality
calculateLeadQuality(lead, missingFields) ==
    With(ByteLen(lead.Description), LAMBDA len :
        With(100 - 15 * Len(missingFields)
             - (IF len < 30 THEN 20 ELSE IF len < 50 THEN 10 ELSE 0)
             - (IF ~lead.City.ok \/ lead.City.v = <<>> THEN 15 ELSE 0)
             + (IF len > 150 THEN 10 ELSE 0), LAMBDA score :
            IF score < 0 THEN 0 ELSE IF score > 100 THEN 100 ELSE score))

\* Agent.determinePriority
determinePriority(missingFields, qualityScore) ==
    LET criticalMissing ==
            Cardinality({i \in 1..Len(missingFields) :
                            missingFields[i] \in {"price", "city", "roomNumber"}})
    IN  IF qualityScore < 30 \/ criticalMissing >= 2 THEN "high"
        ELSE IF qualityScore < 60 \/ criticalMissing >= 1 THEN "medium"
        ELSE "low"

\* a question: the field it asks for and its importance
Question(field, importance) == [Field |-> field, Importance |-> importance]

\* questionTemplates of generateFallbackQuestions
TemplateFields == {"price", "roomNumber", "city", "district", "area"}

QuestionTemplate(field) ==
    IF field \in {"price", "roomNumber", "city"}
    THEN Question(field, "required") ELSE Question(field, "recommended")

\* the questions of the fields of missingFields that have a template of
\* the given importance, in the order of missingFields
TemplatesOf(missingFields, importance) ==
    SelectSeq([i \in 1..Len(missingFields) |->
                  IF missingFields[i] \in TemplateFields
                  THEN QuestionTemplate(missingFields[i])
                  ELSE Question(missingFields[i], "none")],
              LAMBDA q : q.Importance = importance)

\* the cap on the number of fallback questions
QuestionCap == 5

\* Agent.generateFallbackQuestions
generateFallbackQuestions(missingFields) ==
    Take(TemplatesOf(missingFields, "required")
         \o TemplatesOf(missingFields, "recommended"), QuestionCap)

\* Agent.generateQuestionsWithLLM on the reply of the LLM client: the
\* questions of the reply, one by one
generateQuestionsWithLLM(resp) ==
    IF resp.err THEN [err |-> TRUE, questions |-> <<>>]
    ELSE [err |-> FALSE,
          questions |-> [i \in 1..Len(resp.Questions) |->
                            Question(resp.Questions[i].Field,
                                     resp.Questions[i].Importance)]]

\* Agent.AnalyzeAndGenerateQuestions
AnalyzeAndGenerateQuestions(lead, llmEnabled, resp) ==
    With(GetMissingFields(lead), LAMBDA missing :
    With(calculateLeadQuality(lead, missing), LAMBDA quality :
    With(IsShortLead(lead) \/ Len(missing) >= 3, LAMBDA needs :
        IF ~needs
        THEN [NeedsClarification |-> FALSE, Questions |-> <<>>, Priority |-> "low",
              MissingFields |-> missing, LeadQualityScore |-> quality]
        ELSE [NeedsClarification |-> TRUE,
              Questions |-> IF llmEnabled
                            THEN With(generateQuestionsWithLLM(resp), LAMBDA got :
                                     IF got.err THEN generateFallbackQuestions(missing)
                                     ELSE got.questions)
                            ELSE generateFallbackQuestions(missing),
              Priority |-> determinePriority(missing, quality),
              MissingFields |-> missing, LeadQualityScore |-> quality])))

\* the leads the agent is called on: a description of the given number of
\* bytes, a city that is absent, empty or given, any set of requirement keys
DescriptionLens == {10, 40, 100, 160}

ClarificationLeads ==
    {[Title       |-> <<>>,
      Description |-> [i \in 1..len |-> 97],
      City        |-> city,
      Requirement |-> Requirement(price, district, roomNumber, area)] :
        len \in DescriptionLens,
        city \in {NoStr, Some(<<>>), Leads[1].City},
        price \in {NoInt, Leads[1].Requirement.price},
        district \in {NoStr, Leads[1].Requirement.district},
        roomNumber \in {NoInt, Leads[1].Requirement.roomNumber},
        area \in {NoInt, Leads[1].Requirement.area}}

\* the replies of llmClient.GenerateClarificationQuestions: an error, no
\* question, two questions in either order of importance, six questions
ClarificationReplies ==
    {[err |-> TRUE, Questions |-> <<>>],
     [err |-> FALSE, Questions |-> <<>>],
     [err |-> FALSE, Questions |-> <<Question("price", "required"),
                                     Question("district", "recommended")>>],
     [err |-> FALSE, Questions |-> <<Question("district", "recommended"),
                                     Question("price", "required")>>],
     [err |-> FALSE, Questions |-> [i \in 1..6 |-> Question("price", "required")]]}

CallAnalyzeAndGenerateQuestions(lead, llmEnabled, resp) ==
    /\ call.fn = "idle"
    /\ call' = [fn |-> "AnalyzeAndGenerateQuestions", lead |-> lead,
                llmEnabled |-> llmEnabled, resp |-> resp,
                out |-> AnalyzeAndGenerateQuestions(lead, llmEnabled, resp)]
    /\ UNCHANGED <<idxVars, matchVars, metricsVars>>

(***************************************************************************)
(* ApplyClarificationAnswers.  A JSON value is absent, a string or a number; *)
(* a number is kept in tenths, so that the conversions to int64 and int32  *)
(* have something to cut off.                                              *)
(***************************************************************************)
\* the map of parsePriceRange; a value is in tenths
priceRanges == <<
    [pattern |-> <<1076, 1086, 32, 53, 32, 1084, 1083, 1085>>, value |-> 50000000],  \* do 5 mln
    [pattern |-> <<53, 45, 49, 48, 32, 1084, 1083, 1085>>, value |-> 75000000],  \* 5-10 mln
    [pattern |-> <<49, 48, 45, 49, 53, 32, 1084, 1083, 1085>>, value |-> 125000000],  \* 10-15 mln
    [pattern |-> <<49, 53, 45, 50, 53, 32, 1084, 1083, 1085>>, value |-> 200000000],  \* 15-25 mln
    [pattern |-> <<1086, 1090, 32, 50, 53, 32, 1084, 1083, 1085>>, value |-> 300000000]  \* ot 25 mln
  >>

\* the map of parseRooms; a value is in tenths
roomPatterns == <<
    [pattern |-> <<1089, 1090, 1091, 1076, 1080, 1103>>, value |-> 0],  \* studiya
    [pattern |-> <<49, 32, 1082, 1086, 1084, 1085, 1072, 1090>>, value |-> 10],  \* 1 komnat
    [pattern |-> <<50, 32, 1082, 1086, 1084, 1085, 1072, 1090>>, value |-> 20],  \* 2 komnat
    [pattern |-> <<51, 32, 1082, 1086, 1084, 1085, 1072, 1090>>, value |-> 30],  \* 3 komnat
    [pattern |-> <<52, 43, 32, 1082, 1086, 1084, 1085, 1072, 1090>>, value |-> 40],  \* 4+ komnat
    [pattern |-> <<52, 32, 1082, 1086, 1084, 1085, 1072, 1090>>, value |-> 40]  \* 4 komnat
  >>

\* the map of parseArea; a value is in tenths
areaRanges == <<
    [pattern |-> <<1076, 1086, 32, 52, 48>>, value |-> 350],  \* do 40
    [pattern |-> <<52, 48, 45, 54, 48>>, value |-> 500],  \* 40-60
    [pattern |-> <<54, 48, 45, 56, 48>>, value |-> 700],  \* 60-80
    [pattern |-> <<56, 48, 45, 49, 48, 48>>, value |-> 900],  \* 80-100
    [pattern |-> <<1086, 1090, 32, 49, 48, 48>>, value |-> 1200]  \* ot 100
  >>

\* containsIgnoreCase: both sides through the byte-wise toLower, which
\* changes the bytes A to Z only and so leaves every other letter alone
containsIgnoreCase(s, substr) == Contains(asciiToLower(s), asciiToLower(substr))

\* the values a `for pattern, v := range table` loop can return on a text:
\* the value of any pattern the text contains (the order of a map range is
\* not fixed), and 0 when it contains none
ParseResults(table, text) ==
    With({i \in 1..Len(table) : containsIgnoreCase(text, table[i].pattern)}, LAMBDA hits :
        IF hits = {} THEN {0} ELSE {table[i].value : i \in hits})

\* Agent.parsePriceRange
parsePriceRange(text) == ParseResults(priceRanges, text)

\* Agent.parseRooms
parseRooms(text) == ParseResults(roomPatterns, text)

\* Agent.parseArea
parseArea(text) == ParseResults(areaRanges, text)

Absent == [kind |-> "absent", s |-> <<>>, n |-> 0]

Str(s) == [kind |-> "string", s |-> s, n |-> 0]

Num(n) == [kind |-> "number", s |-> <<>>, n |-> n]

\* int64(x), int32(x) of a float64 in range: the fraction is cut off
ToInt(n) == IF n >= 0 THEN (n \div 10) * 10 ELSE 0 - (((0 - n) \div 10) * 10)

\* the keys of the requirement and of the answers
AnswerFields == {"price", "roomNumber", "area", "district", "floor"}

\* json.Unmarshal of lead.Requirement into a map
RequirementMap(req) ==
    [f \in AnswerFields |->
        CASE f = "price" -> IF req.price.ok THEN Num(req.price.v * 10) ELSE Absent
          [] f = "roomNumber" -> IF req.roomNumber.ok THEN Num(req.roomNumber.v * 10) ELSE Absent
          [] f = "area" -> IF req.area.ok THEN Num(req.area.v * 10) ELSE Absent
          [] f = "district" -> IF req.district.ok THEN Str(req.district.v) ELSE Absent
          [] OTHER -> Absent]

\* the answer "Lyuboj" (any) of the district question
AnyDistrict == <<1051, 1102, 1073, 1086, 1081>>

\* the value ApplyClarificationAnswers leaves under a field, given the value
\* `old` already there, the answer, and the result `parsed` of the parser
\* of the field on a textual answer
Applied(field, old, answer, parsed) ==
    CASE answer.kind = "absent" -> old
      [] field \in {"price", "roomNumber", "area"} /\ answer.kind = "string" ->
            IF parsed > 0 THEN Num(parsed) ELSE old
      [] field \in {"price", "roomNumber"} /\ answer.kind = "number" -> Num(ToInt(answer.n))
      [] field = "area" /\ answer.kind = "number" -> answer
      [] field = "district" ->
            IF answer.kind = "string" /\ answer.s # <<>> /\ answer.s # AnyDistrict
            THEN answer ELSE old
      [] OTHER -> answer

\* the results of the parser of a field on an answer (0 where none runs)
Parsed(field, answer) ==
    IF answer.kind # "string" THEN {0}
    ELSE CASE field = "price" -> parsePriceRange(answer.s)
           [] field = "roomNumber" -> parseRooms(answer.s)
           [] field = "area" -> parseArea(answer.s)
           [] OTHER -> {0}

\* Agent.ApplyClarificationAnswers: the requirement maps it can return
ApplyClarificationAnswers(lead, answers) ==
    With(RequirementMap(lead.Requirement), LAMBDA reqMap :
        {[f \in AnswerFields |->
             Applied(f, reqMap[f], answers[f],
                     CASE f = "price" -> price [] f = "roomNumber" -> rooms
                       [] f = "area" -> area [] OTHER -> 0)] :
            price \in Parsed("price", answers["price"]),
            rooms \in Parsed("roomNumber", answers["roomNumber"]),
            area \in Parsed("area", answers["area"])})


\* the answers: per field none, or one of a few texts and numbers
PriceAnswers ==
    {Absent,
     Str(<<53, 45, 49, 48, 32, 1084, 1083, 1085, 32, 8381>>),  \* 5-10 mln R
     Str(<<53, 45, 49, 48, 32, 1084, 1083, 1085, 32, 1080, 1083, 1080, 32, 49, 48, 45, 49, 53, 32, 1084, 1083, 1085>>),  \* 5-10 mln ili 10-15 mln
     Str(<<1076, 1086, 1088, 1086, 1075, 1086>>),  \* dorogo
     Num(70000009)}

RoomAnswers ==
    {Absent,
     Str(<<50, 32, 1082, 1086, 1084, 1085, 1072, 1090, 1099>>),  \* 2 komnaty
     Str(<<1089, 1090, 1091, 1076, 1080, 1103>>),  \* studiya
     Str(<<1084, 1085, 1086, 1075, 1086>>),  \* mnogo
     Num(20)}

AreaAnswers ==
    {Absent,
     Str(<<52, 48, 45, 54, 48, 32, 1084, 178>>),  \* 40-60 m2
     Str(<<1073, 1086, 1083, 1100, 1096, 1072, 1103>>),  \* bol'shaya
     Num(455)}

DistrictAnswers ==
    {Absent,
     Str(<<1062, 1077, 1085, 1090, 1088, 1072, 1083, 1100, 1085, 1099, 1081>>),  \* Central'nyj
     Str(AnyDistrict),
     Str(<<>>)}

FloorAnswers ==
    {Absent,
     Str(<<1074, 1099, 1089, 1086, 1082, 1080, 1081>>)}  \* vysokij

ClarificationAnswers ==
    {[f \in AnswerFields |->
        CASE f = "price" -> price [] f = "roomNumber" -> roomNumber [] f = "area" -> area
          [] f = "district" -> district [] OTHER -> floor] :
        price \in PriceAnswers, roomNumber \in RoomAnswers, area \in AreaAnswers,
        district \in DistrictAnswers, floor \in FloorAnswers}

\* the leads whose requirement the answers are merged into
AnsweredLeads == {Leads[1], Leads[2]}

CallApplyClarificationAnswers(lead, answers) ==
    /\ call.fn = "idle"
    /\ \E out \in ApplyClarificationAnswers(lead, answers) :
          call' = [fn |-> "ApplyClarificationAnswers", lead |-> lead,
                   answers |-> answers, out |-> out]
    /\ UNCHANGED <<idxVars, matchVars, metricsVars>>

(***************************************************************************)
(* CitiesMatch on a pair of city names and on their normal forms.          *)
(***************************************************************************)
\* the city names the calls are made with
CityNames == {
    <<>>,  \* the empty string
    <<32>>,  \* one space
    <<32, 32>>,  \* two spaces
    <<1089, 1087, 1073>>,  \* spb
    <<1057, 1055, 1041>>,  \* SPB
    <<32, 1089, 1087, 1073, 32>>,  \* spb between spaces
    <<1057, 1072, 1085, 1082, 1090, 45, 1055, 1077, 1090, 1077, 1088, 1073, 1091, 1088, 1075>>,  \* Sankt-Peterburg
    <<1087, 1080, 1090, 1077, 1088>>,  \* piter
    <<1084, 1086, 1089, 1082, 1074, 1072>>,  \* moskva
    <<1052, 1086, 1089, 1082, 1074, 1072>>,  \* Moskva
    <<1084, 1089, 1082>>,  \* msk
    <<109, 111, 115, 99, 111, 119>>,  \* moscow
    <<1082, 1072, 1079, 1072, 1085, 1100>>  \* kazan'
  }

CallCitiesMatch(city1, city2) ==
    /\ call.fn = "idle"
    /\ \E n1 \in {NormalizeCity(city1)}, n2 \in {NormalizeCity(city2)} :
          call' = [fn |-> "CitiesMatch", city1 |-> city1, city2 |-> city2,
                   out |-> CitiesMatch(city1, city2),
                   normalized1 |-> n1, normalized2 |-> n2,
                   outNormalized |-> CitiesMatch(n1, n2)]
    /\ UNCHANGED <<idxVars, matchVars, metricsVars>>

(***************************************************************************)
(* Page cursor (package domain): PageCursor.Encode and DecodePageCursor.   *)
(* A text is a sequence of code points, a byte string a sequence of        *)
(* numbers below 256.  An ill-formed byte of a Go string is the code       *)
(* point BadByte.                                                          *)
(***************************************************************************)
RECURSIVE Flatten(_)
\* the concatenation of a sequence of sequences
Flatten(ss) ==
    With(ss, LAMBDA t :
        IF t = <<>> THEN <<>>
        ELSE IF Len(t) = 1 THEN t[1]
        ELSE With(Len(t) \div 2, LAMBDA h :
                 Flatten(SubSeq(t, 1, h)) \o Flatten(SubSeq(t, h + 1, Len(t)))))

\* a byte of a string that is no part of a UTF-8 sequence
BadByte == 0 - 1

\* the rune json.Marshal writes for an ill-formed byte
ReplacementChar == 65533

\* the UTF-8 bytes of a code point below 65536
Utf8Of(c) ==
    IF c < 128 THEN <<c>>
    ELSE IF c < 2048 THEN <<192 + (c \div 64), 128 + (c % 64)>>
    ELSE <<224 + (c \div 4096), 128 + ((c \div 64) % 64), 128 + (c % 64)>>

\* []byte(s) of a text without ill-formed bytes
Utf8Encode(s) == Flatten([i \in 1..Len(s) |-> Utf8Of(s[i])])

\* the positions of the bytes that start a code point
Utf8Starts(b) == {i \in 1..Len(b) : b[i] < 128 \/ b[i] >= 192}

\* the code point that starts at a position
Utf8At(b, i) ==
    IF b[i] < 128 THEN b[i]
    ELSE IF b[i] < 224 THEN (b[i] - 192) * 64 + (b[i + 1] - 128)
    ELSE (b[i] - 224) * 4096 + (b[i + 1] - 128) * 64 + (b[i + 2] - 128)

\* the members of a set of positive numbers in increasing order
SortedSeq(S) ==
    With(S, LAMBDA T :
        IF T = {} THEN <<>>
        ELSE Flatten([i \in 1..(CHOOSE x \in T : \A y \in T : y <= x) |->
                         IF i \in T THEN <<i>> ELSE <<>>]))

\* string(b) of well-formed UTF-8 bytes
Utf8Decode(b) ==
    With(b, LAMBDA t :
        With(SortedSeq(Utf8Starts(t)), LAMBDA starts :
            [k \in 1..Len(starts) |-> Utf8At(t, starts[k])]))

\* the alphabet of base64.URLEncoding and its padding character
Base64Alphabet ==
    [i \in 1..26 |-> 64 + i] \o [i \in 1..26 |-> 96 + i] \o [i \in 1..10 |-> 47 + i]
    \o <<45, 95>>

Base64Pad == 61

Pow(b, e) == IF e = 0 THEN 1 ELSE IF e = 1 THEN b ELSE IF e = 2 THEN b * b ELSE b * b * b

ByteAt(b, i) == IF i <= Len(b) THEN b[i] ELSE 0

\* base64.URLEncoding.EncodeToString
EncodeToString(data) ==
    With(data, LAMBDA b :
        [k \in 1..(4 * ((Len(b) + 2) \div 3)) |->
            LET g == (k - 1) \div 4
                j == (k - 1) % 4
                v == ByteAt(b, 3 * g + 1) * 65536 + ByteAt(b, 3 * g + 2) * 256
                     + ByteAt(b, 3 * g + 3)
            IN  IF (j = 2 /\ 3 * g + 2 > Len(b)) \/ (j = 3 /\ 3 * g + 3 > Len(b))
                THEN Base64Pad
                ELSE Base64Alphabet[((v \div Pow(64, 3 - j)) % 64) + 1]])

\* the number of a character of the alphabet, 0 for the padding
SextetOf(c) ==
    IF c = Base64Pad THEN 0
    ELSE (CHOOSE i \in 1..64 : Base64Alphabet[i] = c) - 1

\* the number of padding characters at the end of a token
PadCount(t) ==
    IF Len(t) >= 2 /\ t[Len(t)] = Base64Pad /\ t[Len(t) - 1] = Base64Pad THEN 2
    ELSE IF Len(t) >= 1 /\ t[Len(t)] = Base64Pad THEN 1
    ELSE 0

\* base64.URLEncoding.DecodeString
DecodeString(token) ==
    With(token, LAMBDA t :
        With(PadCount(t), LAMBDA pad :
            IF \/ Len(t) % 4 # 0
               \/ \E k \in 1..(Len(t) - pad) : \A i \in 1..64 : Base64Alphabet[i] # t[k]
            THEN [err |-> TRUE, data |-> <<>>]
            ELSE [err |-> FALSE,
                  data |-> [i \in 1..(3 * (Len(t) \div 4) - pad) |->
                      LET g == (i - 1) \div 3
                          j == (i - 1) % 3
                          v == SextetOf(t[4 * g + 1]) * 262144 + SextetOf(t[4 * g + 2]) * 4096
                               + SextetOf(t[4 * g + 3]) * 64 + SextetOf(t[4 * g + 4])
                      IN  (v \div Pow(256, 2 - j)) % 256]]))

\* the digits 0-9a-f
HexDigits == [i \in 1..10 |-> 47 + i] \o [i \in 1..6 |-> 96 + i]

\* the value of a hexadecimal digit of either case, 16 for another character
HexValue(c) ==
    IF c >= 48 /\ c <= 57 THEN c - 48
    ELSE IF c >= 97 /\ c <= 102 THEN c - 87
    ELSE IF c >= 65 /\ c <= 70 THEN c - 55
    ELSE 16

\* the positions of the hyphens in the text of a UUID
UUIDHyphens == {9, 14, 19, 24}

\* the positions of the hexadecimal digits in the text of a UUID
UUIDDigitAt == SortedSeq((1..36) \ UUIDHyphens)

\* uuid.UUID.String (MarshalText): 16 bytes as 8-4-4-4-12 hexadecimal digits
UUIDString(id) ==
    [k \in 1..36 |->
        IF k \in UUIDHyphens THEN 45
        ELSE LET d == CHOOSE i \in 1..32 : UUIDDigitAt[i] = k
             IN  IF d % 2 = 1 THEN HexDigits[(id[(d + 1) \div 2] \div 16) + 1]
                 ELSE HexDigits[(id[d \div 2] % 16) + 1]]

\* uuid.UUID.UnmarshalText on the 36-character form
ParseUUID(text) ==
    With(text, LAMBDA t :
        IF \/ Len(t) # 36
           \/ \E k \in UUIDHyphens : t[k] # 45
           \/ \E i \in 1..32 : HexValue(t[UUIDDigitAt[i]]) = 16
        THEN [err |-> TRUE, id |-> <<>>]
        ELSE [err |-> FALSE,
              id |-> [b \in 1..16 |-> HexValue(t[UUIDDigitAt[2 * b - 1]]) * 16
                                      + HexValue(t[UUIDDigitAt[2 * b]])]])

\* a number in decimal digits, padded with zeros to a width of at most 9
Decimal(n, width) ==
    [k \in 1..width |->
        48 + ((n \div (CASE width - k = 0 -> 1 [] width - k = 1 -> 10
                         [] width - k = 2 -> 100 [] width - k = 3 -> 1000
                         [] width - k = 4 -> 10000 [] width - k = 5 -> 100000
                         [] width - k = 6 -> 1000000 [] width - k = 7 -> 10000000
                         [] OTHER -> 100000000)) % 10)]

RECURSIVE ParseDecimal(_)
\* the number a sequence of decimal digits stands for
ParseDecimal(ds) ==
    With(ds, LAMBDA d :
        IF d = <<>> THEN 0 ELSE ParseDecimal(SubSeq(d, 1, Len(d) - 1)) * 10 + (d[Len(d)] - 48))

IsDigits(ds) == \A i \in 1..Len(ds) : ds[i] >= 48 /\ ds[i] <= 57

RECURSIVE TrimZeros(_)
\* a fraction without its trailing zeros
TrimZeros(ds) ==
    With(ds, LAMBDA d :
        IF d # <<>> /\ d[Len(d)] = 48 THEN TrimZeros(SubSeq(d, 1, Len(d) - 1)) ELSE d)

\* a time.Time of the first day of 1970 in its own zone: the seconds since
\* the epoch, the nanoseconds, the offset of its zone in seconds east of UTC
\* and whether it carries a monotonic clock reading
Time(unix, nsec, off, mono) == [unix |-> unix, nsec |-> nsec, off |-> off, mono |-> mono]

\* time.Time.Equal: the same instant
TimeEqual(a, b) == a.unix = b.unix /\ a.nsec = b.nsec

\* A variant of FormatTime in the layout RFC3339, without the fraction.
FormatTimeSeconds(t) ==
    With(t.unix + t.off, LAMBDA local :
        <<49, 57, 55, 48, 45, 48, 49, 45, 48, 49, 84>>
        \o Decimal(local \div 3600, 2) \o <<58>> \o Decimal((local \div 60) % 60, 2)
        \o <<58>> \o Decimal(local % 60, 2)
        \o (IF t.off = 0 THEN <<90>>
            ELSE <<43>> \o Decimal(t.off \div 3600, 2) \o <<58>>
                 \o Decimal((t.off \div 60) % 60, 2)))

\* time.Time.MarshalJSON: the layout RFC3339Nano, which writes the zone as Z
\* or as hours and minutes
FormatTime(t) ==
    With(t.unix + t.off, LAMBDA local :
        <<49, 57, 55, 48, 45, 48, 49, 45, 48, 49, 84>>
        \o Decimal(local \div 3600, 2) \o <<58>> \o Decimal((local \div 60) % 60, 2)
        \o <<58>> \o Decimal(local % 60, 2)
        \o (IF t.nsec = 0 THEN <<>> ELSE <<46>> \o TrimZeros(Decimal(t.nsec, 9)))
        \o (IF t.off = 0 THEN <<90>>
            ELSE <<43>> \o Decimal(t.off \div 3600, 2) \o <<58>>
                 \o Decimal((t.off \div 60) % 60, 2)))

\* the fraction of a time text: the digits after the seconds
FractionOf(t) ==
    IF Len(t) > 19 /\ t[20] = 46
    THEN SubSeq(t, 21, (CHOOSE k \in 20..Len(t) :
                           /\ \A i \in 21..k : t[i] >= 48 /\ t[i] <= 57
                           /\ (k = Len(t) \/ t[k + 1] < 48 \/ t[k + 1] > 57)))
    ELSE <<>>

\* time.Time.UnmarshalJSON on a text of the first day of 1970: the instant is
\* the local time less the written offset, the zone is the written offset
ParseTime(text) ==
    With(text, LAMBDA t :
        IF \/ Len(t) < 20
           \/ SubSeq(t, 1, 11) # <<49, 57, 55, 48, 45, 48, 49, 45, 48, 49, 84>>
           \/ ~IsDigits(SubSeq(t, 12, 13) \o SubSeq(t, 15, 16) \o SubSeq(t, 18, 19))
           \/ t[14] # 58 \/ t[17] # 58
        THEN [err |-> TRUE, t |-> Time(0, 0, 0, FALSE)]
        ELSE With(FractionOf(t), LAMBDA frac :
             With(SubSeq(t, 20 + (IF frac = <<>> THEN 0 ELSE Len(frac) + 1), Len(t)), LAMBDA zone :
                 IF ~(\/ zone = <<90>>
                      \/ /\ Len(zone) = 6 /\ zone[1] = 43 /\ zone[4] = 58
                         /\ IsDigits(SubSeq(zone, 2, 3) \o SubSeq(zone, 5, 6)))
                 THEN [err |-> TRUE, t |-> Time(0, 0, 0, FALSE)]
                 ELSE With(IF zone = <<90>> THEN 0
                           ELSE ParseDecimal(SubSeq(zone, 2, 3)) * 3600
                                + ParseDecimal(SubSeq(zone, 5, 6)) * 60, LAMBDA off :
                          [err |-> FALSE,
                           t |-> Time(ParseDecimal(SubSeq(t, 12, 13)) * 3600
                                      + ParseDecimal(SubSeq(t, 15, 16)) * 60
                                      + ParseDecimal(SubSeq(t, 18, 19)) - off,
                                      ParseDecimal(frac \o [i \in 1..(9 - Len(frac)) |-> 48]),
                                      off, FALSE)]))))

\* a JSON escape \uXXXX of a code point
UnicodeEscape(c) ==
    <<92, 117, HexDigits[(c \div 4096) + 1], HexDigits[((c \div 256) % 16) + 1],
      HexDigits[((c \div 16) % 16) + 1], HexDigits[(c % 16) + 1]>>

\* encoding/json on one code point of a string, with the HTML escapes on
EscapeRune(c) ==
    IF c = BadByte THEN UnicodeEscape(ReplacementChar)
    ELSE IF c = 34 THEN <<92, 34>>
    ELSE IF c = 92 THEN <<92, 92>>
    ELSE IF c = 10 THEN <<92, 110>>
    ELSE IF c = 13 THEN <<92, 114>>
    ELSE IF c = 9 THEN <<92, 116>>
    ELSE IF c < 32 \/ c \in {60, 62, 38, 8232, 8233} THEN UnicodeEscape(c)
    ELSE <<c>>

\* a JSON string literal
Quote(s) == <<34>> \o Flatten([i \in 1..Len(s) |-> EscapeRune(s[i])]) \o <<34>>

RECURSIVE Unescape(_)
\* the text of the inside of a JSON string literal
Unescape(raw) ==
    With(raw, LAMBDA r :
        IF \A i \in 1..Len(r) : r[i] # 92 THEN r
        ELSE IF r[1] # 92 THEN <<r[1]>> \o Unescape(Tail(r))
        ELSE IF r[2] = 117
        THEN <<HexValue(r[3]) * 4096 + HexValue(r[4]) * 256 + HexValue(r[5]) * 16
               + HexValue(r[6])>> \o Unescape(SubSeq(r, 7, Len(r)))
        ELSE <<CASE r[2] = 110 -> 10 [] r[2] = 114 -> 13 [] r[2] = 116 -> 9
                 [] r[2] = 98 -> 8 [] r[2] = 102 -> 12 [] OTHER -> r[2]>>
             \o Unescape(SubSeq(r, 3, Len(r))))

\* the number of backslashes right before a position
BackslashesBefore(t, i) ==
    CHOOSE n \in 0..(i - 1) :
        /\ \A k \in (i - n)..(i - 1) : t[k] = 92
        /\ (n = i - 1 \/ t[i - n - 1] # 92)

\* the positions of the quotes that open or close a string literal
QuotePositions(t) == {i \in 1..Len(t) : t[i] = 34 /\ BackslashesBefore(t, i) % 2 = 0}

\* json.Marshal of a PageCursor: the keys id, ca and, for a last value that
\* is not empty, v
MarshalCursor(c) ==
    <<123>> \o Quote(<<105, 100>>) \o <<58>> \o Quote(UUIDString(c.LastID))
    \o <<44>> \o Quote(<<99, 97>>) \o <<58>> \o Quote(FormatTime(c.LastCreatedAt))
    \o (IF c.LastValue = <<>> THEN <<>>
        ELSE <<44>> \o Quote(<<118>>) \o <<58>> \o Quote(c.LastValue))
    \o <<125>>

\* the zero values of the fields of a PageCursor
ZeroUUID == [b \in 1..16 |-> 0]

ZeroTime == Time(0, 0, 0, FALSE)

PageCursor(id, createdAt, value) ==
    [LastID |-> id, LastCreatedAt |-> createdAt, LastValue |-> value]

NoCursor == [nil |-> TRUE, c |-> PageCursor(ZeroUUID, ZeroTime, <<>>)]

SomeCursor(c) == [nil |-> FALSE, c |-> c]

\* the value of a key of an object of string members: the literals of the
\* text are its keys and values in turn
MemberOf(t, quotes, key) ==
    With({k \in 1..(Len(quotes) \div 4) :
             SubSeq(t, quotes[4 * k - 3] + 1, quotes[4 * k - 2] - 1) = key}, LAMBDA hits :
        IF hits = {} THEN [ok |-> FALSE, v |-> <<>>]
        ELSE With(CHOOSE k \in hits : \A other \in hits : other <= k, LAMBDA k :
                 [ok |-> TRUE,
                  v |-> Unescape(SubSeq(t, quotes[4 * k - 1] + 1, quotes[4 * k] - 1))]))

\* json.Unmarshal into a PageCursor of an object of string members
UnmarshalCursor(text) ==
    With(text, LAMBDA t :
    With(SortedSeq(QuotePositions(t)), LAMBDA quotes :
        IF \/ Len(t) < 2 \/ t[1] # 123 \/ t[Len(t)] # 125
           \/ Len(quotes) % 4 # 0
           \/ \E k \in 1..(Len(quotes) \div 4) :
                 \/ quotes[4 * k - 1] # quotes[4 * k - 2] + 2
                 \/ t[quotes[4 * k - 2] + 1] # 58
                 \/ t[quotes[4 * k] + 1] # (IF 4 * k = Len(quotes) THEN 125 ELSE 44)
                 \/ quotes[4 * k - 3] # (IF k = 1 THEN 2 ELSE quotes[4 * k - 4] + 2)
        THEN [err |-> TRUE, c |-> NoCursor.c]
        ELSE With(MemberOf(t, quotes, <<105, 100>>), LAMBDA id :
             With(MemberOf(t, quotes, <<99, 97>>), LAMBDA ca :
             With(MemberOf(t, quotes, <<118>>), LAMBDA v :
             With(IF id.ok THEN ParseUUID(id.v) ELSE [err |-> FALSE, id |-> ZeroUUID], LAMBDA lastID :
             With(IF ca.ok THEN ParseTime(ca.v) ELSE [err |-> FALSE, t |-> ZeroTime], LAMBDA createdAt :
                 IF lastID.err \/ createdAt.err THEN [err |-> TRUE, c |-> NoCursor.c]
                 ELSE [err |-> FALSE,
                       c |-> PageCursor(lastID.id, createdAt.t, v.v)])))))))

\* PageCursor.Encode; json.Marshal fails on no cursor of this model
Encode(cursor) ==
    IF cursor.nil THEN <<>>
    ELSE EncodeToString(Utf8Encode(MarshalCursor(cursor.c)))

\* DecodePageCursor
DecodePageCursor(token) ==
    IF token = <<>> THEN [err |-> FALSE, cursor |-> NoCursor]
    ELSE With(DecodeString(token), LAMBDA decoded :
        IF decoded.err THEN [err |-> TRUE, cursor |-> NoCursor]
        ELSE With(UnmarshalCursor(Utf8Decode(decoded.data)), LAMBDA parsed :
            IF parsed.err THEN [err |-> TRUE, cursor |-> NoCursor]
            ELSE [err |-> FALSE, cursor |-> SomeCursor(parsed.c)]))

\* the cursors of the calls: two ids, instants with and without a fraction,
\* the zones UTC, +03:00 and one with an offset of odd seconds, and last
\* values that are empty, need escapes, are not ASCII, or are ill-formed
CursorIds == {ZeroUUID, [b \in 1..16 |-> IF b = 16 THEN 171 ELSE 16 * b]}

CursorTimes ==
    {Time(unix, nsec, off, mono) :
        unix \in {0, 3661}, nsec \in {0, 500000000, 123456000},
        off \in {0, 10800, 9017}, mono \in BOOLEAN}

CursorValues == {<<>>, <<97, 60, 34, 92, 98>>, <<1076, 1086, 1084>>, <<97, BadByte>>}

Cursors ==
    {NoCursor} \cup {SomeCursor(PageCursor(id, t, v)) :
                        id \in CursorIds, t \in CursorTimes, v \in CursorValues}

\* a cursor is encoded and the token decoded
CallDecodePageCursor(cursor) ==
    /\ call.fn = "idle"
    /\ \E token \in {Encode(cursor)} :
          call' = [fn |-> "DecodePageCursor", cursor |-> cursor, token |-> token,
                   out |-> DecodePageCursor(token)]
    /\ UNCHANGED <<idxVars, matchVars, metricsVars>>

(***************************************************************************)
(* The candidate count of MatchPropertiesAdvanced on its own.              *)
(***************************************************************************)
\* the configured reranker candidate counts and the requested result sizes
CandidateConfigs == {0 - 1, 0, 10, 50, 80, 100, 200}

ResultSizes == {1, 5, 10, 11, 20, 30, 150}

CallCandidateLimit(rerankerCandidates, limit) ==
    /\ call.fn = "idle"
    /\ call' = [fn |-> "candidateLimit", rerankerCandidates |-> rerankerCandidates,
                limit |-> limit, out |-> CandidateLimit(rerankerCandidates, limit)]
    /\ UNCHANGED <<idxVars, matchVars, metricsVars>>

(***************************************************************************)
(* PropertyRepository.ListProperties: cursor pagination over the table of  *)
(* properties, and a client that follows the page tokens.                  *)
(***************************************************************************)
\* most pages a client of the model follows
MaxPages == 4

DefaultPageSize == 20

MaxPageSize == 10000

\* NormalizePageSize
NormalizePageSize(size) ==
    IF size <= 0 THEN DefaultPageSize
    ELSE IF size > MaxPageSize THEN MaxPageSize
    ELSE size

\* NormalizeOrderDirection
NormalizeOrderDirection(dir) == IF dir \in {"asc", "ASC"} THEN "asc" ELSE "desc"

\* the switch on filter.Pagination.OrderBy
OrderColumn(orderBy) ==
    IF orderBy \in {"created_at", "updated_at", "title", "price"} THEN orderBy
    ELSE "created_at"

\* a property_id: sixteen bytes
ListId(n) == [b \in 1..16 |-> IF b = 16 THEN n ELSE 17 * b]

\* a timestamp column value
Stamp(sec) == Time(sec, 0, 0, FALSE)

ListRow(n, title, city, price, rooms, status, createdAt, updatedAt) ==
    [property_id |-> ListId(n), title |-> title, city |-> city,
     property_type |-> "APARTMENT", price |-> price, rooms |-> rooms, status |-> status,
     owner_user_id |-> ListId(200), created_user_id |-> ListId(200),
     created_at |-> Stamp(createdAt), updated_at |-> Stamp(updatedAt)]

\* Contents of the properties table: rows never updated, rows of which the
\* oldest was updated last, and rows created in the same instant.
ListTables ==
    {{ListRow(1, <<97>>, <<1052>>, 300, 1, "PUBLISHED", 10, 10),
      ListRow(2, <<99>>, <<1052>>, 100, 2, "PUBLISHED", 20, 20),
      ListRow(3, <<98>>, <<1084>>, 200, 3, "NEW", 30, 30)},
     {ListRow(1, <<97>>, <<1052>>, 300, 1, "PUBLISHED", 10, 50),
      ListRow(2, <<99>>, <<1052>>, 100, 2, "PUBLISHED", 20, 20),
      ListRow(3, <<98>>, <<1084>>, 200, 3, "PUBLISHED", 30, 30)},
     {ListRow(3, <<97>>, <<1052>>, 300, 1, "PUBLISHED", 10, 40),
      ListRow(1, <<97>>, <<1052>>, 100, 2, "PUBLISHED", 10, 40),
      ListRow(2, <<98>>, <<1084>>, 100, 3, "PUBLISHED", 10, 10)}}

\* no value of a filter field of type uuid
NoId == [ok |-> FALSE, v |-> ZeroUUID]

NoListFilter ==
    [Status |-> None, OwnerUserID |-> NoId, CreatedUserID |-> NoId, PropertyType |-> None,
     MinRooms |-> NoInt, MaxRooms |-> NoInt, MinPrice |-> NoInt, MaxPrice |-> NoInt,
     City |-> NoStr]

ListFilters ==
    {NoListFilter,
     [NoListFilter EXCEPT !.Status = "PUBLISHED"],
     [NoListFilter EXCEPT !.MinPrice = Some(100), !.MaxPrice = Some(250),
                          !.MinRooms = Some(2), !.MaxRooms = Some(3)],
     [NoListFilter EXCEPT !.City = Some(<<1084>>), !.OwnerUserID = Some(ListId(200)),
                          !.CreatedUserID = Some(ListId(200)),
                          !.PropertyType = "APARTMENT"]}

\* the base WHERE conditions of ListProperties, without the cursor
BaseWhere(row, filter) ==
    /\ filter.Status = None \/ row.status = filter.Status
    /\ ~filter.OwnerUserID.ok \/ row.owner_user_id = filter.OwnerUserID.v
    /\ ~filter.CreatedUserID.ok \/ row.created_user_id = filter.CreatedUserID.v
    /\ filter.PropertyType = None \/ row.property_type = filter.PropertyType
    /\ ~filter.MinRooms.ok \/ row.rooms >= filter.MinRooms.v
    /\ ~filter.MaxRooms.ok \/ row.rooms <= filter.MaxRooms.v
    /\ ~filter.MinPrice.ok \/ row.price >= filter.MinPrice.v
    /\ ~filter.MaxPrice.ok \/ row.price <= filter.MaxPrice.v
    /\ ~filter.City.ok \/ ToLower(row.city) = ToLower(filter.City.v)

\* the order of two sequences of numbers: of texts by code point, of uuids by byte
SeqLess(a, b) ==
    \E i \in 1..(Len(b)) :
        /\ \A j \in 1..(i - 1) : j <= Len(a) /\ a[j] = b[j]
        /\ i > Len(a) \/ a[i] < b[i]

TimeLess(a, b) == a.unix < b.unix \/ (a.unix = b.unix /\ a.nsec < b.nsec)

\* column < value for two values of the column's type
ColumnLess(orderBy, a, b) ==
    CASE orderBy \in {"created_at", "updated_at"} -> TimeLess(a, b)
      [] orderBy = "title" -> SeqLess(a, b)
      [] orderBy = "price" -> a < b

ColumnEqual(orderBy, a, b) ==
    IF orderBy \in {"created_at", "updated_at"} THEN TimeEqual(a, b) ELSE a = b

\* ORDER BY orderBy dir, property_id dir: row a comes before row b
RowBefore(a, b, orderBy, orderDir) ==
    LET lo == IF orderDir = "asc" THEN a ELSE b
        hi == IF orderDir = "asc" THEN b ELSE a
    IN  \/ ColumnLess(orderBy, lo[orderBy], hi[orderBy])
        \/ /\ ColumnEqual(orderBy, lo[orderBy], hi[orderBy])
           /\ SeqLess(lo.property_id, hi.property_id)

\* the rows of a set in the order of the query
SortRows(S, orderBy, orderDir) ==
    With(S, LAMBDA T :
        [i \in 1..Cardinality(T) |->
            CHOOSE r \in T :
                Cardinality({x \in T : RowBefore(x, r, orderBy, orderDir)}) = i - 1])

\* The cursor predicate (orderBy, property_id) < ($n, $n+1), or > for
\* ascending order, with cursor.LastCreatedAt and cursor.LastID as its values.
Keyset(row, orderBy, orderDir, cursor) ==
    LET at == [created_at |-> cursor.LastCreatedAt, updated_at |-> cursor.LastCreatedAt,
               property_id |-> cursor.LastID]
    IN  IF orderDir = "desc" THEN RowBefore(at, row, orderBy, "desc")
        ELSE RowBefore(at, row, orderBy, "asc")

\* The statement with the cursor predicate can be executed: its first value
\* is a timestamp, which the database compares with a timestamp column only.
KeysetTyped(orderBy) == orderBy \in {"created_at", "updated_at"}

Pagination(pageSize, pageToken, orderBy, orderDirection) ==
    [PageSize |-> pageSize, PageToken |-> pageToken, OrderBy |-> orderBy,
     OrderDirection |-> orderDirection]

ListFailure == [err |-> TRUE, Items |-> <<>>, NextPageToken |-> <<>>, TotalCount |-> 0,
                HasMore |-> FALSE]

\* PropertyRepository.ListProperties
ListProperties(table, filter, pagination) ==
    LET pageSize == NormalizePageSize(pagination.PageSize)
        orderDir == NormalizeOrderDirection(pagination.OrderDirection)
        orderBy  == OrderColumn(pagination.OrderBy)
    IN
    With(IF pagination.PageToken # <<>>
         THEN DecodePageCursor(pagination.PageToken).cursor
         ELSE NoCursor, LAMBDA cursor :
    With({r \in table : BaseWhere(r, filter)}, LAMBDA base :
        IF ~cursor.nil /\ ~KeysetTyped(orderBy) THEN ListFailure
        ELSE
    With(SortRows({r \in base : cursor.nil \/ Keyset(r, orderBy, orderDir, cursor.c)},
                  orderBy, orderDir), LAMBDA sorted :
    With(SubSeq(sorted, 1, IF Len(sorted) > pageSize + 1 THEN pageSize + 1 ELSE Len(sorted)),
         LAMBDA properties :
    With(Len(properties) > pageSize, LAMBDA hasMore :
    With(IF hasMore THEN SubSeq(properties, 1, pageSize) ELSE properties, LAMBDA items :
        [err |-> FALSE, Items |-> items,
         NextPageToken |-> IF hasMore /\ Len(items) > 0
                           THEN Encode(SomeCursor(PageCursor(items[Len(items)].property_id,
                                                             items[Len(items)].created_at,
                                                             <<>>)))
                           ELSE <<>>,
         TotalCount |-> Cardinality(base), HasMore |-> hasMore]))))))

PageSizes == {0, 1, 2}

OrderBys == {"created_at", "updated_at", "title", "price", "rooms"}

OrderDirections == {"asc", "ASC", "desc", ""}

\* the ids of the rows of a page
PageIds(items) == [i \in 1..Len(items) |-> items[i].property_id[16]]

\* A client asks for the first page of a listing.
CallListProperties(table, filter, pageSize, orderBy, orderDirection) ==
    /\ call.fn = "idle"
    /\ \E page \in {ListProperties(table, filter,
                                   Pagination(pageSize, <<>>, orderBy, orderDirection))} :
          call' = [fn |-> "ListProperties", table |-> table, filter |-> filter,
                   pageSize |-> pageSize, orderBy |-> orderBy,
                   orderDirection |-> orderDirection, pages |-> 1, err |-> page.err,
                   items |-> PageIds(page.Items), token |-> page.NextPageToken,
                   hasMore |-> page.HasMore, total |-> page.TotalCount]
    /\ UNCHANGED <<idxVars, matchVars, metricsVars>>

\* The client asks for the next page with the token of the last one.
ListNextPage ==
    /\ call.fn = "ListProperties"
    /\ call.hasMore
    /\ ~call.err
    /\ call.pages < MaxPages
    /\ \E page \in {ListProperties(call.table, call.filter,
                                   Pagination(call.pageSize, call.token, call.orderBy,
                                              call.orderDirection))} :
          call' = [call EXCEPT !.pages = @ + 1, !.err = page.err,
                               !.items = @ \o PageIds(page.Items),
                               !.token = page.NextPageToken, !.hasMore = page.HasMore,
                               !.total = page.TotalCount]
    /\ UNCHANGED <<idxVars, matchVars, metricsVars>>
(***************************************************************************)
(* Specification of the indexing pipeline.                                 *)
(***************************************************************************)
InitIndex ==
    /\ mlMode \in {"real", "noop"}
    /\ rows \in {[i \in {id} |-> NoRow] : id \in Ids}
    /\ tasks = [t \in Slots |-> IdleTask]
    /\ rx = IdleRx
    /\ shutdown = FALSE
    /\ cfg = DefaultConfig
    /\ m = IdleMatch
    /\ call = IdleCall
    /\ met = NewMetrics("reranker")

NextIndex ==
    \/ \E id \in DOMAIN rows : Create(id)
    \/ \E id \in DOMAIN rows \cup {UnknownId} : Update(id)
    \/ \E t \in Slots : TaskEmbed(t)
    \/ \E t \in Slots : TaskWrite(t)
    \/ \E id \in DOMAIN rows \cup {UnknownId} : ReindexStart(id)
    \/ CancelCaller
    \/ ReindexEmbed
    \/ ReindexWrite
    \/ RaiseShutdown

SpecIndex == InitIndex /\ [][NextIndex]_vars

(***************************************************************************)
(* Specification of the single function calls.                             *)
(***************************************************************************)
\* the caller has the result; the next call can be made
Return ==
    /\ call.fn # "idle"
    /\ call' = IdleCall
    /\ UNCHANGED <<idxVars, matchVars, metricsVars>>

InitCalls ==
    /\ call = IdleCall
    /\ met = NewMetrics("reranker")
    /\ cfg = DefaultConfig
    /\ m = IdleMatch
    /\ mlMode = "real"
    /\ rows = [i \in Ids |-> NoRow]
    /\ tasks = [t \in Slots |-> IdleTask]
    /\ rx = IdleRx
    /\ shutdown = FALSE

\* no call is made before the last one has returned
NextCalls ==
    \/ /\ call.fn = "idle"
       /\ \E matches \in RankInputs, w \in RankWeights, criteria \in RankCriteria :
             CallRankMatches(matches, w, criteria)
    \/ /\ call.fn = "idle"
       /\ \E l \in SearchLeads, fulltextWeight \in FulltextWeights, filter \in AdvancedFilters,
             limit \in 1..MaxLimit, dbOK \in BOOLEAN :
             \E searchQuery \in SearchQueries(l), hf \in SearchHardFilters(l) :
                 CallHybridSearch(l, searchQuery, fulltextWeight, filter, hf, limit, dbOK)
    \/ /\ call.fn = "idle"
       /\ \E title \in KeywordTitles : CallDetectLeadType(title, <<>>)
    \/ /\ call.fn = "idle"
       /\ \E l \in LeadIds, dynamicWeightsEnabled \in BOOLEAN, llmEnabled \in BOOLEAN :
             \E resp \in LLMReplies(Leads[l]) :
                 CallAnalyzeLead(l, dynamicWeightsEnabled, llmEnabled, resp)
    \/ /\ call.fn = "idle"
       /\ \E p, d, r, a, s \in WeightValues : CallNormalize(Weights(p, d, r, a, s))
    \/ /\ call.fn = "idle"
       /\ \E lead \in ClarificationLeads, llmEnabled \in BOOLEAN, resp \in ClarificationReplies :
             CallAnalyzeAndGenerateQuestions(lead, llmEnabled, resp)
    \/ /\ call.fn = "idle"
       /\ \E lead \in AnsweredLeads, answers \in ClarificationAnswers :
             CallApplyClarificationAnswers(lead, answers)
    \/ /\ call.fn = "idle"
       /\ \E city1 \in CityNames, city2 \in CityNames : CallCitiesMatch(city1, city2)
    \/ /\ call.fn = "idle"
       /\ \E cursor \in Cursors : CallDecodePageCursor(cursor)
    \/ /\ call.fn = "idle"
       /\ \E rerankerCandidates \in CandidateConfigs, limit \in ResultSizes :
             CallCandidateLimit(rerankerCandidates, limit)
    \/ /\ call.fn = "idle"
       /\ \E table \in ListTables, filter \in ListFilters, pageSize \in PageSizes,
             orderBy \in OrderBys, orderDirection \in OrderDirections :
             CallListProperties(table, filter, pageSize, orderBy, orderDirection)
    \/ ListNextPage
    \/ /\ call.fn = "idle"
       /\ \E candidates \in RerankCandidates, kind \in RerankReplyKinds \cup RerankFaultKinds,
             topN \in RerankTopN :
             CallApplyReranker(candidates, kind, topN)
    \/ Return

SpecCalls == InitCalls /\ [][NextCalls]_vars

(***************************************************************************)
(* Specification of the metrics registry.                                  *)
(***************************************************************************)
\* the calls: a latency in microseconds, whether the call failed, and the
\* tokens it used
RecordedCalls == {<<1500, FALSE, 7>>, <<2600, TRUE, 0>>}

InitMetrics ==
    /\ \E service \in ServiceSet : met = NewMetrics(service)
    /\ call = IdleCall
    /\ cfg = DefaultConfig
    /\ m = IdleMatch
    /\ mlMode = "real"
    /\ rows = [i \in Ids |-> NoRow]
    /\ tasks = [t \in Slots |-> IdleTask]
    /\ rx = IdleRx
    /\ shutdown = FALSE

NextMetrics ==
    \/ \E g \in Recorders, c \in RecordedCalls : RecordCall(g, c[1], c[2], c[3])
    \/ \E g \in Recorders : RecordAddCalls(g)
    \/ \E g \in Recorders : RecordAddLatency(g)
    \/ \E g \in Recorders : RecordStoreLast(g)
    \/ \E g \in Recorders : RecordAddTokens(g)
    \/ \E g \in Recorders : RecordAddErrors(g)
    \/ \E g \in Recorders : RecordReturn(g)
    \/ GetStats
    \/ StatsLoadCalls
    \/ StatsLoadErrors
    \/ StatsLoadLatency
    \/ StatsLoadLast
    \/ StatsLoadTokens
    \/ StatsReturn
    \/ Reset
    \/ ResetStore

SpecMetrics == InitMetrics /\ [][NextMetrics]_vars

(***************************************************************************)
(* Claims about the indexing pipeline (checked under SpecIndex).           *)
(***************************************************************************)
TasksOf(id) == {t \in Slots : InFlight(t) /\ tasks[t].id = id}

\* C2: at every moment at most one background embedding task is in flight
\* per entity id.
C2_SingleFlight == \A id \in Ids : Cardinality(TasksOf(id)) <= 1

\* C3: once ReindexLead / ReindexProperty has returned success, and as long
\* as no later mutation or reindex of the entity has been requested, a read
\* of the entity observes the embedding that reindex wrote.
C3_ReadAfterReindex ==
    (rx.pc = "returned" /\ rx.result = "ok" /\ rx.fresh)
        => rows[rx.id].emb = rx.wrote.vec

C8_ReindexSynchronous ==
    /\ (rx.pc \in {"embed", "write"} => rx.result = None)
    /\ (rx.pc = "returned" =>
          /\ (rx.result = "ok" =>
                /\ rx.embedCalled
                /\ rx.wrote.id = rx.id
                /\ rx.wrote.vec # NoVec
                /\ rx.wrote.vec.of = rx.id)
          /\ (rx.fail # None => rx.result # "ok" /\ rx.wrote = NoWrite)
          /\ (rx.fail = "load" => ~rx.embedCalled))

\* a reindex has returned nil
C8_Witness == rx.pc = "returned" /\ rx.result = "ok" /\ rx.wrote.id = rx.id

\* a reindex has returned the embedder's failure
C8_WitnessEmbedderFailure == rx.pc = "returned" /\ rx.fail = "embedder" /\ rx.result = "error"

\* C9: once the top-level cancellation signal is raised, an in-flight
\* background task starts no further embedder call and no further
\* embedding write: its only possible step is to end as cancelled.
C9_TasksHonorShutdown ==
    [][shutdown =>
         \A t \in Slots :
             InFlight(t) => (tasks'[t] = tasks[t] \/ tasks'[t].err = "canceled")]_vars


\* every background task of the entity has ended, none with an error, and no
\* manual reindex was requested
IndexedQuietly(id) ==
    /\ rows[id].exists
    /\ rx = IdleRx
    /\ \A t \in Slots : tasks[t].pc \in {"idle", "done"}

C25_WitnessInOrder ==
    \E id \in DOMAIN rows :
        /\ IndexedQuietly(id)
        /\ rows[id].ver = 3
        /\ rows[id].emb.src = 3
        /\ \A t \in Slots : tasks[t].pc = "done"

(***************************************************************************)
(* Properties of the match calls, checked under SpecMatch.                 *)
(***************************************************************************)
AdvancedReturned == m.pc = "returned" /\ m.rpc = "advanced"

IdsOf(matches) == {matches[i].id : i \in 1..Len(matches)}

\* C1: when the reranker is switched on and enabled, retrieval returned a
\* non-empty candidate list and the reranker call fails, the advanced match
\* returns without error and the list handed to weighted scoring is exactly
\* the retrieved list: same members, same order.
C1_RerankFailureKeepsCandidates ==
    (AdvancedReturned /\ m.reranker = "failed") =>
        /\ m.code = "OK"
        /\ Len(m.retrieved) > 0
        /\ m.handed = m.retrieved

\* C4: a match for a lead that was loaded and has no embedding fails with
\* NotFound (or NotIndexed) without running retrieval, and a match never
\* answers with a list computed against an all-zero lead vector.
C4_NoEmbeddingIsNotFound ==
    (m.pc = "returned" /\ m.lead \in LeadIds /\ m.failure # "db") =>
        /\ Leads[m.lead].Embedding.dim = 0 =>
              m.code \in {"NotFound", "NotIndexed"} /\ ~m.searched
        /\ (m.code = "OK" /\ m.searched) => ~Leads[m.lead].Embedding.zero

C6_RoomsHardFilter ==
    (AdvancedReturned /\ m.lead \in LeadIds /\ Leads[m.lead].Requirement.roomNumber.ok) =>
        LET t  == Leads[m.lead].Requirement.roomNumber.v
            lo == IF t - 1 < 1 THEN 1 ELSE t - 1
        IN  \A i \in 1..Len(m.out) :
                LET rooms == Properties[m.out[i].id].Rooms
                IN  rooms.ok => (rooms.v >= lo /\ rooms.v <= t + 1)

\* C10: in an advanced match that succeeds and whose reranker call, if
\* there was one, succeeded, the list that enters weighted ranking has the
\* same members as the retrieved candidate list (the rerank only reorders),
\* every one of them is scored, and the result is the first k entries of
\* the weighted order.
C10_EveryCandidateScored ==
    (AdvancedReturned /\ m.code = "OK" /\ m.reranker \in {"skipped", "applied"}) =>
        /\ IdsOf(m.handed) = IdsOf(m.retrieved)
        /\ Len(m.handed) = Len(m.retrieved)
        /\ IdsOf(m.ranked) = IdsOf(m.retrieved)
        /\ \A i \in 1..Len(m.ranked) : m.ranked[i].Scored
        /\ m.out = Take(m.ranked, m.limit)

\* a MatchPropertiesAdvanced call returns in this step and its reranker call failed
RerankerFailedInStep ==
    /\ m.pc = "idle"
    /\ m'.pc = "returned"
    /\ m'.rpc = "advanced"
    /\ m'.reranker = "failed"

\* C24: an advanced match whose reranker call fails adds exactly 1 to the
\* reranker error counter of the metrics registry and exactly 1 to its
\* reranker call counter.
C24_RerankerFailureCounted ==
    [][RerankerFailedInStep =>
          /\ met'.ctr.errors = met.ctr.errors + 1
          /\ met'.ctr.calls = met.ctr.calls + 1]_vars

\* the registry is as constructed in every state of the match service: no
\* step of a match records a call
C24_MatchRecordsNothing == met = NewMetrics("reranker")

\* every soft filter predicate the caller supplied holds of property p
SuppliedPredicatesHold(p, filter) ==
    Where(SoftClauses(filter, EmptyHardFilters), p, filter, EmptyHardFilters)

\* an advanced match returned rows
AdvancedMatched == m.pc = "returned" /\ m.rpc = "advanced" /\ m.failure = None

\* C30: every soft filter predicate supplied by the caller of the advanced
\* match restricts the result whether hybrid search is on or off: no
\* returned property violates a supplied predicate.
C30_SoftFiltersRestrict ==
    AdvancedMatched =>
        \A i \in 1..Len(m.out) : SuppliedPredicatesHold(m.out[i].id, m.filter)

\* the same for the matches that took the vector statement
C30_VectorPathRestricts ==
    (AdvancedMatched /\ m.path = "vector") =>
        \A i \in 1..Len(m.out) : SuppliedPredicatesHold(m.out[i].id, m.filter)

\* the same for the matches that took the RRF statement
C30_RRFPathRestricts ==
    (AdvancedMatched /\ m.path = "rrf") =>
        \A i \in 1..Len(m.out) : SuppliedPredicatesHold(m.out[i].id, m.filter)

\* the status predicate alone holds of every returned property on both paths
C30_StatusRestricts ==
    (AdvancedMatched /\ m.filter.Status.ok) =>
        \A i \in 1..Len(m.out) : Properties[m.out[i].id].Status = m.filter.Status.v
(***************************************************************************)
(* Claims about single functions (checked under SpecCalls).                *)
(***************************************************************************)
\* what identifies a candidate of a list: the property and its similarity
Candidates(matches) ==
    [i \in 1..Len(matches) |-> <<matches[i].id, matches[i].Similarity>>]

Count(s, x) == Cardinality({i \in 1..Len(s) : s[i] = x})

IsPermutation(a, b) ==
    /\ Len(a) = Len(b)
    /\ \A x \in Range(a) \cup Range(b) : Count(a, x) = Count(b, x)

\* C11: the output of rankMatches is a permutation of its input: no
\* candidate is added, dropped or duplicated, whatever the weights and the
\* criteria (absent criteria included).
C11_RankKeepsMembership ==
    call.fn = "rankMatches" =>
        IsPermutation(Candidates(call.out), Candidates(call.matches))

\* rankMatches has changed the order of a list of three distinct candidates
\* under absent criteria
C11_Witness ==
    /\ call.fn = "rankMatches"
    /\ Len(call.matches) >= 3
    /\ ~call.criteria.ok
    /\ Cardinality(Range(Candidates(call.matches))) = Len(call.matches)
    /\ Candidates(call.out) # Candidates(call.matches)

\* the position of candidate x in a list of distinct candidates
PositionOf(matches, x) == CHOOSE i \in 1..Len(matches) : Candidates(matches)[i] = x

\* C12: after rankMatches the candidates are in non-increasing order of
\* total score, and two candidates with equal total score keep the relative
\* order they had in the input list.
C12_RankSortedAndStable ==
    (call.fn = "rankMatches"
     /\ Cardinality(Range(Candidates(call.matches))) = Len(call.matches)) =>
        /\ \A i \in 1..(Len(call.out) - 1) :
               call.out[i].TotalScore >= call.out[i + 1].TotalScore
        /\ \A i, j \in 1..Len(call.out) :
               (i < j /\ call.out[i].TotalScore = call.out[j].TotalScore) =>
                   PositionOf(call.matches, Candidates(call.out)[i])
                       < PositionOf(call.matches, Candidates(call.out)[j])

\* C13: with a full-text weight <= 0 or an empty search query, HybridSearch
\* returns exactly what MatchPropertiesWithHardFilters returns for the same
\* lead, soft filter, hard filters and limit, and the RRF statement is not
\* executed.
C13_HybridFallsBackToVector ==
    (call.fn = "HybridSearch" /\ (call.fulltextWeight <= 0 \/ call.searchQuery = <<>>)) =>
        /\ call.statement = "vector"
        /\ call.out = MatchPropertiesWithHardFilters(call.l, call.filter, call.hf,
                                                     call.limit, call.dbOK)

\* a search with a text query and hard filters whose full-text branch is
\* switched off has returned candidates
C13_Witness ==
    /\ call.fn = "HybridSearch"
    /\ call.fulltextWeight <= 0
    /\ call.searchQuery # <<>>
    /\ call.hf.City.ok
    /\ ~call.out.err
    /\ Len(call.out.matches) > 0

\* the lead types of the keyword families, in the order of KeywordFamilies
FamilyTypes == <<"budget_oriented", "location_oriented", "family_oriented", "investor", "luxury">>

\* the number of keywords of family f in the analysed text
FamilyScore(f) == countKeywords(call.text, KeywordFamilies[f])

\* C14: the heuristic analysis assigns the lead type and the weights of a
\* keyword family with the maximum number of keyword matches in the
\* lower-cased title plus description, and it answers balanced with the
\* default weights if and only if all five families have zero matches.
C14_MaxFamilyWins ==
    call.fn = "detectLeadType" =>
        IF \A f \in 1..5 : FamilyScore(f) = 0
        THEN call.out.LeadType = "balanced" /\ call.out.Weights = DefaultWeights
        ELSE \E f \in 1..5 :
                /\ \A g \in 1..5 : FamilyScore(g) <= FamilyScore(f)
                /\ call.out.LeadType = FamilyTypes[f]
                /\ call.out.Weights = LeadTypeWeights(FamilyTypes[f])

\* the LLM was asked and answered
LLMSucceeded == call.dynamicWeightsEnabled /\ call.llmEnabled /\ ~call.resp.err

C16_NormalizeSumsToOne ==
    call.fn = "Normalize" =>
        /\ call.out.den > 0
        /\ 100 * WeightTotal(call.out) >= 99 * call.out.den
        /\ 100 * WeightTotal(call.out) <= 101 * call.out.den

\* a vector with a non-zero component and a non-positive total has been
\* normalised
C16_Witness ==
    /\ call.fn = "Normalize"
    /\ WeightTotal(call.w) <= 0
    /\ call.w.price # 0
    /\ call.out = DefaultWeights

\* a vector with a negative component and a positive total has been
\* normalised
C16_WitnessNegativeComponent ==
    /\ call.fn = "Normalize"
    /\ WeightTotal(call.w) > 0
    /\ call.w.price < 0
    /\ call.out.den = WeightTotal(call.w)


\* the number of the fields price, city and roomNumber among the missing ones
CriticalMissing(missingFields) ==
    Cardinality({i \in 1..Len(missingFields) :
                    missingFields[i] \in {"price", "city", "roomNumber"}})

\* the priority rule, on a quality score in hundredths
PriorityRule(missingFields, quality) ==
    IF quality < 30 \/ CriticalMissing(missingFields) >= 2 THEN "high"
    ELSE IF quality < 60 \/ CriticalMissing(missingFields) >= 1 THEN "medium"
    ELSE "low"

\* C17: the priority in every result of AnalyzeAndGenerateQuestions is high
\* if the quality is below 0.3 or at least two of price, city and roomNumber
\* are missing, otherwise medium if the quality is below 0.6 or at least one
\* of them is missing, otherwise low, whether or not the result needs
\* clarification.
C17_PriorityFollowsRule ==
    call.fn = "AnalyzeAndGenerateQuestions" =>
        call.out.Priority = PriorityRule(call.out.MissingFields, call.out.LeadQualityScore)

\* the rule holds in every result that needs clarification
C17_PriorityFollowsRuleWhenNeeded ==
    (call.fn = "AnalyzeAndGenerateQuestions" /\ call.out.NeedsClarification) =>
        call.out.Priority = PriorityRule(call.out.MissingFields, call.out.LeadQualityScore)

\* C18: every result of AnalyzeAndGenerateQuestions has at most five
\* questions and no recommended question before a required one, whether the
\* questions come from the LLM or from the template table.
C18_QuestionsCappedAndOrdered ==
    call.fn = "AnalyzeAndGenerateQuestions" =>
        /\ Len(call.out.Questions) <= 5
        /\ \A i, j \in 1..Len(call.out.Questions) :
              (call.out.Questions[i].Importance = "recommended"
               /\ call.out.Questions[j].Importance = "required") => j < i

\* the questions of a result come from the template table
FromTemplates ==
    /\ call.fn = "AnalyzeAndGenerateQuestions"
    /\ call.out.NeedsClarification
    /\ ~call.llmEnabled \/ call.resp.err

\* the cap and the order hold for the questions of the template table
C18_TemplateQuestionsCappedAndOrdered ==
    FromTemplates =>
        /\ Len(call.out.Questions) <= 5
        /\ \A i, j \in 1..Len(call.out.Questions) :
              (call.out.Questions[i].Importance = "recommended"
               /\ call.out.Questions[j].Importance = "required") => j < i

\* the lookup table of a field: the patterns its textual answers are parsed
\* with; district and the other fields have none
LookupTable(field) ==
    CASE field = "price" -> {priceRanges[i].pattern : i \in 1..Len(priceRanges)}
      [] field = "roomNumber" -> {roomPatterns[i].pattern : i \in 1..Len(roomPatterns)}
      [] field = "area" -> {areaRanges[i].pattern : i \in 1..Len(areaRanges)}
      [] OTHER -> {}

\* the answer to the field is a text that matches no entry of its table
UnknownText(field, answer) ==
    /\ answer.kind = "string"
    /\ \A pattern \in LookupTable(field) : ~containsIgnoreCase(answer.s, pattern)

\* C19: in ApplyClarificationAnswers a textual answer that matches no entry
\* of its field's lookup table is stored under the field in the returned
\* requirement as the same string, for price, roomNumber and area as for
\* every other field.
C19_UnknownTextPassesThrough ==
    call.fn = "ApplyClarificationAnswers" =>
        \A f \in AnswerFields :
            UnknownText(f, call.answers[f]) => call.out[f] = call.answers[f]

\* a text answer to a field other than price, roomNumber, area and district
\* is stored as it is, and so is a district other than "" and "Lyuboj"
C19_OtherTextPassesThrough ==
    call.fn = "ApplyClarificationAnswers" =>
        /\ call.answers["floor"].kind = "string" => call.out["floor"] = call.answers["floor"]
        /\ (call.answers["district"].kind = "string"
            /\ call.answers["district"].s \notin {<<>>, AnyDistrict}) =>
               call.out["district"] = call.answers["district"]

\* an unknown text for price, roomNumber or area is not stored: the field
\* keeps the value the requirement had
C19_UnknownParsedTextDropped ==
    call.fn = "ApplyClarificationAnswers" =>
        \A f \in {"price", "roomNumber", "area"} :
            UnknownText(f, call.answers[f]) =>
                call.out[f] = RequirementMap(call.lead.Requirement)[f]

\* the alias "spb" and the name "Sankt-Peterburg"
AliasSpb == <<1089, 1087, 1073>>

SanktPeterburg == <<1057, 1072, 1085, 1082, 1090, 45, 1055, 1077, 1090, 1077, 1088, 1073, 1091, 1088, 1075>>

\* C20: for all strings x and y, the empty and the whitespace-only ones
\* included, CitiesMatch(NormalizeCity(x), NormalizeCity(y)) is true exactly
\* when CitiesMatch(x, y) is; and CitiesMatch of the alias "spb" with
\* "Sankt-Peterburg" is true.
C20_NormalizeKeepsCitiesMatch ==
    call.fn = "CitiesMatch" =>
        /\ call.outNormalized <=> call.out
        /\ (call.city1 = AliasSpb /\ call.city2 = SanktPeterburg) => call.out

\* a non-empty string of white space only
OnlySpace(s) == s # <<>> /\ TrimSpace(s) = <<>>

\* the equivalence holds unless both names are non-empty white space
C20_HoldsOffWhitespacePairs ==
    (call.fn = "CitiesMatch" /\ ~(OnlySpace(call.city1) /\ OnlySpace(call.city2))) =>
        /\ call.outNormalized <=> call.out
        /\ (call.city1 = AliasSpb /\ call.city2 = SanktPeterburg) => call.out

\* a call on the alias and the name has been made
C20_AliasCalled ==
    call.fn = "CitiesMatch" /\ call.city1 = AliasSpb /\ call.city2 = SanktPeterburg

\* a cursor the list operations can make: its last value is well-formed
\* UTF-8 and the zone of its instant is a whole number of minutes from UTC
WellFormedCursor(cursor) ==
    /\ ~cursor.nil
    /\ \A i \in 1..Len(cursor.c.LastValue) : cursor.c.LastValue[i] # BadByte
    /\ cursor.c.LastCreatedAt.off % 60 = 0

\* C21: for every well-formed cursor c, DecodePageCursor(c.Encode()) returns
\* without an error a cursor with the last id, the created-at instant and
\* the last value of c; and DecodePageCursor of the empty string returns nil
\* without an error.
C21_CursorRoundTrip ==
    call.fn = "DecodePageCursor" =>
        /\ WellFormedCursor(call.cursor) =>
              /\ ~call.out.err
              /\ ~call.out.cursor.nil
              /\ call.out.cursor.c.LastID = call.cursor.c.LastID
              /\ TimeEqual(call.out.cursor.c.LastCreatedAt, call.cursor.c.LastCreatedAt)
              /\ call.out.cursor.c.LastValue = call.cursor.c.LastValue
        /\ call.token = <<>> => ~call.out.err /\ call.out.cursor.nil

\* a well-formed cursor with a fraction of a second, a zone other than UTC
\* and a last value that needs escapes has been encoded and decoded
C21_Witness ==
    /\ call.fn = "DecodePageCursor"
    /\ WellFormedCursor(call.cursor)
    /\ call.cursor.c.LastCreatedAt.nsec # 0
    /\ call.cursor.c.LastCreatedAt.off # 0
    /\ call.cursor.c.LastValue = <<97, 60, 34, 92, 98>>
    /\ call.token # <<>>
    /\ ~call.out.err

\* the round trip holds for no cursor that is not well-formed
C21_IllFormedCursorsChange ==
    (call.fn = "DecodePageCursor" /\ ~call.cursor.nil /\ ~WellFormedCursor(call.cursor)) =>
        \/ ~TimeEqual(call.out.cursor.c.LastCreatedAt, call.cursor.c.LastCreatedAt)
        \/ call.out.cursor.c.LastValue # call.cursor.c.LastValue

MaxOf(a, b) == IF a >= b THEN a ELSE b

MinOf(a, b) == IF a <= b THEN a ELSE b

\* C22: for every result size k >= 1 and every configured reranker candidate
\* count r, the advanced match requests min(100, max(r, 5k, 50)) candidates
\* from retrieval.
C22_CandidateCountFormula ==
    call.fn = "candidateLimit" =>
        call.out = MinOf(100, MaxOf(call.rerankerCandidates, MaxOf(5 * call.limit, 50)))

\* what the count is: the configured count, 50 if that is not positive, and
\* five times the result size if the result size is larger than that
C22_CandidateCountOfCode ==
    call.fn = "candidateLimit" =>
        LET c == IF call.rerankerCandidates <= 0 THEN 50 ELSE call.rerankerCandidates
        IN  call.out = IF c < call.limit THEN 5 * call.limit ELSE c

\* the client has followed the page tokens until has_more was false
ListingEnded == call.fn = "ListProperties" /\ ~call.err /\ ~call.hasMore

\* the ids of the rows that match the filter, in the requested order
ExpectedListing ==
    PageIds(SortRows({r \in call.table : BaseWhere(r, call.filter)},
                   OrderColumn(call.orderBy),
                   NormalizeOrderDirection(call.orderDirection)))

\* C27: for every accepted order_by column and each direction, following
\* the page tokens from the empty token until has_more is false returns
\* every row that matches the filter exactly once and in the requested order.
C27_PagesCoverListing == ListingEnded => call.items = ExpectedListing

\* the same for listings ordered by created_at
C27_CreatedAtPagesCoverListing ==
    (ListingEnded /\ OrderColumn(call.orderBy) = "created_at") =>
        call.items = ExpectedListing

\* a listing ordered by created_at that took three pages
C27_CreatedAtWitness ==
    ListingEnded /\ OrderColumn(call.orderBy) = "created_at" /\ call.pages = 3

\* a second page ordered by title or price cannot be read
C27_UntypedKeysetFails ==
    (call.fn = "ListProperties" /\ call.pages > 1
        /\ OrderColumn(call.orderBy) \in {"title", "price"}) => call.err

\* a listing does not end within the pages a client follows
C27_ListingGoesOn == call.fn = "ListProperties" /\ call.hasMore /\ call.pages = MaxPages

\* a candidate with its similarity left out
SameCandidate(a, b) == [a EXCEPT !.Similarity = 0] = [b EXCEPT !.Similarity = 0]

\* applyReranker returned without a panic only candidates of the list it was
\* given, each at most once
RerankedSafely(candidates, out) ==
    /\ ~out.panic
    /\ \A i \in 1..Len(out.matches) :
          \E j \in 1..Len(candidates) : SameCandidate(out.matches[i], candidates[j])
    /\ \A i, j \in 1..Len(out.matches) :
          out.matches[i].id = out.matches[j].id => i = j

\* C28: for every response of the reranker service, also one with negative,
\* too large or repeated indices, applyReranker completes without a runtime
\* fault and returns only candidates of the original list, each at most
\* once, with the fields other than the similarity of the original.
C28_RerankerAppliedSafely ==
    call.fn = "applyReranker" => RerankedSafely(call.candidates, call.out)

\* the same for the responses whose indices are not negative and not repeated
C28_SafeOnDistinctIndices ==
    (call.fn = "applyReranker" /\ call.kind \notin RerankFaultKinds) =>
        RerankedSafely(call.candidates, call.out)

\* a response with an index beyond the candidates was applied
C28_StrayIndexSkipped ==
    /\ call.fn = "applyReranker"
    /\ call.kind = "stray"
    /\ Len(call.out.matches) = 1
    /\ Len(call.resp.Results) = 2

\* a response with a negative index makes applyReranker panic
C28_NegativeIndexPanics ==
    (call.fn = "applyReranker" /\ call.kind = "negative") => call.out.panic

\* a response that names a document twice yields the candidate twice
C28_RepeatedIndexDuplicates ==
    (call.fn = "applyReranker" /\ call.kind = "repeated") =>
        /\ Len(call.out.matches) = 2
        /\ call.out.matches[1].id = call.out.matches[2].id

\* a call of HybridSearch took the RRF path and the database was reachable
RRFCalled == call.fn = "HybridSearch" /\ call.statement = "rrf" /\ call.dbOK

\* the filter clauses of the RRF statement of the call
RRFClausesOfCall == HardClauses(call.hf) \o HybridSoftClauses(call.filter)

\* every filter placeholder is bound to the value of its own clause, the
\* LIMIT placeholder to the limit, and at most limit rows come back
RRFBoundToOwnValues(clauses) ==
    /\ \A k \in 1..Len(clauses) : RRFArgs(clauses)[RRFClausePlaceholder(k)] = clauses[k]
    /\ RRFArgs(clauses)[RRFLimitPlaceholder] = "limit"
    /\ ~call.out.err
    /\ Len(call.out.matches) <= call.limit

\* C29: in the RRF path of HybridSearch, for every combination of hard
\* filters and status filter, each filter placeholder is bound to its own
\* filter value and the final LIMIT placeholder to the limit k, so that the
\* call returns at most k rows.
C29_RRFPlaceholdersBound == RRFCalled => RRFBoundToOwnValues(RRFClausesOfCall)

\* the same for the calls without any filter
C29_BoundWithoutFilters ==
    (RRFCalled /\ RRFClausesOfCall = <<>>) => RRFBoundToOwnValues(RRFClausesOfCall)

\* an RRF call without filters returned rows
C29_WitnessWithoutFilters ==
    RRFCalled /\ RRFClausesOfCall = <<>> /\ Len(call.out.matches) > 0

\* with a filter the LIMIT placeholder carries the value of the first filter
\* clause and the statement fails
C29_FirstFilterTakesLimit ==
    (RRFCalled /\ RRFClausesOfCall # <<>>) =>
        /\ RRFArgs(RRFClausesOfCall)[RRFLimitPlaceholder] = RRFClausesOfCall[1]
        /\ call.out.err
(***************************************************************************)
(* Claims about the metrics registry, checked under SpecMetrics.           *)
(***************************************************************************)
\* a getServiceStats call is about to return statistics it has read with no
\* RecordCall under way, and no Reset has been called before
QuietSnapshot == met.rd.pc = "return" /\ met.rd.quiet /\ met.resets = 0

\* C23: no update of the counters is lost: once the RecordCall invocations
\* of a service have all returned, with no Reset, the snapshot reports
\* calls_total = the number of invocations, errors_total = the number of
\* them with an error, error_rate = errors_total / calls_total and
\* avg_latency_ms = the sum of their latencies in milliseconds / calls_total,
\* both 0 when calls_total = 0.
C23_NoLostUpdate ==
    QuietSnapshot =>
        /\ Snapshot.CallsTotal = met.returned.n
        /\ Snapshot.ErrorsTotal = met.returned.errors
        /\ IF met.returned.n = 0
           THEN Snapshot.ErrorRate.num = 0 /\ Snapshot.AvgLatencyMs.num = 0
           ELSE /\ Snapshot.ErrorRate.num * met.returned.n
                      = met.returned.errors * Snapshot.ErrorRate.den
                /\ Snapshot.AvgLatencyMs.num * met.returned.n
                      = met.returned.latencyMs * Snapshot.AvgLatencyMs.den

\* a snapshot of a quiet registry after two invocations that ran at the same
\* time, one of them with an error
C23_Witness ==
    /\ QuietSnapshot
    /\ met.returned.n >= 2
    /\ met.returned.errors >= 1
    /\ met.returned.errors < met.returned.n

\* C26: every snapshot of GetStats, also one taken while RecordCall
\* invocations run, has errors_total <= calls_total and an error_rate
\* between 0 and 1.
C26_SnapshotConsistent ==
    met.rd.pc = "return" =>
        /\ Snapshot.ErrorsTotal <= Snapshot.CallsTotal
        /\ Snapshot.ErrorRate.num >= 0
        /\ Snapshot.ErrorRate.num <= Snapshot.ErrorRate.den

\* the snapshots of a registry with no RecordCall under way are consistent
C26_QuietSnapshotConsistent ==
    (met.rd.pc = "return" /\ met.rd.quiet) =>
        /\ Snapshot.ErrorsTotal <= Snapshot.CallsTotal
        /\ Snapshot.ErrorRate.num >= 0
        /\ Snapshot.ErrorRate.num <= Snapshot.ErrorRate.den

\* an error rate above 1 is about to be returned
C26_RateAboveOne ==
    met.rd.pc = "return" /\ Snapshot.ErrorRate.num > Snapshot.ErrorRate.den
====
